---- MODULE Spec2Model ----
(***************************************************************************)
(* Quench: batch registry and run orchestrator (src/src/module/quench.js,  *)
(* TypeScript class `Quench`, lines 613-868) with the helpers of           *)
(* quench-utils (src/unnamed/part_001).                                    *)
(*                                                                         *)
(* JavaScript null/undefined is modelled as the empty set and a present    *)
(* value v as {v}, so that `a ?? b` can be computed as the code computes   *)
(* it.  Strings that the code parses (batch keys) are sequences of         *)
(* one-character strings.                                                  *)
(*                                                                         *)
(* The test engine (Mocha) and the snapshot manager are collaborators      *)
(* whose code is not part of the modelled sources.  The engine is          *)
(* modelled by what the orchestrator uses of it: `describe` runs the suite *)
(* body while declaring, `setup` binds the declaration primitives to the   *)
(* current root suite, `run` returns a runner that later emits run-end     *)
(* once.  The engine's own refusal to start a second run on a busy         *)
(* instance, if any, is not modelled: nothing in quench.js guards it.      *)
(***************************************************************************)
EXTENDS Integers, Sequences, FiniteSets, TLC

(***************************************************************************)
(* Bounds of the model                                                     *)
(***************************************************************************)
MaxRuns == 2        \* runSelectedBatches calls
MaxRegs == 2        \* registerBatch calls
MaxSets == 1        \* external assignments to snapshots.enableUpdates
MaxBatchKeys == 2   \* length of a batchKeys argument
MaxBatchRuns == 1   \* runSelectedBatches calls while the registry changes (SpecBatches)
MaxAborts == 1      \* abort calls
MaxItems == 3       \* suites and tests of a tree getSuiteState is applied to

Runs == 1..MaxRuns

(***************************************************************************)
(* Inputs                                                                  *)
(***************************************************************************)
\* batch keys: known namespace (twice), unknown namespace, no separator
Keys == { <<"a", ".", "x">>, <<"a", ".", "y">>, <<"b", ".", "x">> , <<"a", "b">> }
\* registration callbacks that declare nothing
Fns == { "f1", "f2" }
\* options objects passed to registerBatch
RegOptions ==
  { [displayName |-> {}, snapBaseDir |-> {}, preSelected |-> {}],
    [displayName |-> {<<"D">>}, snapBaseDir |-> {<<"S">>}, preSelected |-> {FALSE}] }
\* boolean | null
NullableBool == { {}, {TRUE}, {FALSE} }

RECURSIVE SeqsUpTo(_, _)
SeqsUpTo(S, n) ==
  IF n = 0 THEN { <<>> }
  ELSE LET shorter == SeqsUpTo(S, n - 1)
       IN shorter \cup { Append(s, x) : s \in shorter, x \in S }
\* the keys selected for runs
RunKeys == { <<"a", ".", "x">>, <<"b", ".", "x">> }
BatchKeyArgs == SeqsUpTo(RunKeys, MaxBatchKeys)
NoOptions == [displayName |-> {}, snapBaseDir |-> {}, preSelected |-> {}]

\* what a registration callback does with the context it is given: the
\* declarations it makes before it returns or suspends (each through a
\* primitive of the context, `parent` being the position of the enclosing
\* describe in the list, 0 for none), whether it then throws, and the suite it
\* declares after an asynchronous suspension
NoLate == <<>>
Declares(fn) ==
  CASE fn = "f3" ->
         \* describe("S", () => { it("t1", pass); it("t2", fail); it("t3", pass) })
         [ sync |-> << [kind |-> "suite", via |-> "describe", title |-> "S", parent |-> 0, body |-> "none"],
                       [kind |-> "test", via |-> "it", title |-> "t1", parent |-> 1, body |-> "pass"],
                       [kind |-> "test", via |-> "it", title |-> "t2", parent |-> 1, body |-> "fail"],
                       [kind |-> "test", via |-> "it", title |-> "t3", parent |-> 1, body |-> "pass"] >>,
           throws |-> FALSE, late |-> NoLate ]
    [] fn = "fT" ->
         \* it.skip("p", ...); it("u", fail); throw new Error()
         [ sync |-> << [kind |-> "test", via |-> "it.skip", title |-> "p", parent |-> 0, body |-> "pass"],
                       [kind |-> "test", via |-> "it", title |-> "u", parent |-> 0, body |-> "fail"] >>,
           throws |-> TRUE, late |-> NoLate ]
    [] fn = "fL" ->
         \* await something; describe("L", () => { it("v", pass) })
         [ sync |-> <<>>, throws |-> FALSE,
           late |-> << [kind |-> "suite", via |-> "describe", title |-> "L", parent |-> 0, body |-> "none"],
                       [kind |-> "test", via |-> "it", title |-> "v", parent |-> 1, body |-> "pass"] >> ]
    [] fn = "fS" ->
         \* describe("S", () => { it("t1", () => expect(v).to.matchSnapshot()) })
         [ sync |-> << [kind |-> "suite", via |-> "describe", title |-> "S", parent |-> 0, body |-> "none"],
                       [kind |-> "test", via |-> "it", title |-> "t1", parent |-> 1, body |-> "snap"] >>,
           throws |-> FALSE, late |-> NoLate ]
    [] OTHER -> [ sync |-> <<>>, throws |-> FALSE, late |-> NoLate ]

\* the batches of the execution scenarios
KeyA == <<"a", ".", "x">>    \* registered with "f3"
KeyB == <<"b", ".", "x">>    \* registered with "fT"
KeyL == <<"a", ".", "y">>    \* registered with "fL"
KeyU == <<"a", "b">>         \* not registered
\* the batchKeys arguments of the execution scenarios
ExecKeyArgs == { <<>>, <<KeyA>>, <<KeyU, KeyA>>, <<KeyB, KeyA, KeyB>>, <<KeyL>> }

\* the host's package registry: game.modules ids and game.system.id
GameModules == { <<"a">> }
GameSystemId == <<"s">>

(***************************************************************************)
(* JavaScript built-ins used by the code                                   *)
(***************************************************************************)
Min(a, b) == IF a < b THEN a ELSE b
Max(a, b) == IF a > b THEN a ELSE b

\* a ?? b
Coalesce(a, b) == IF a = {} THEN b ELSE a
\* the value of a present optional
TheValue(a) == CHOOSE v \in a : TRUE

\* String.prototype.indexOf, 0-based, -1 when absent
IndexOf(s, c) ==
  IF \E i \in 1..Len(s) : s[i] = c
  THEN (CHOOSE i \in 1..Len(s) : s[i] = c /\ \A j \in 1..(i - 1) : s[j] # c) - 1
  ELSE -1

\* String.prototype.slice(start, end) with negative indices counted from the end
Slice(s, start, end) ==
  LET len == Len(s)
      norm(i) == IF i < 0 THEN Max(len + i, 0) ELSE Min(i, len)
      from == norm(start)
      to == norm(end)
  IN IF from >= to THEN <<>> ELSE SubSeq(s, from + 1, to)

\* Map.prototype.has / get / set / keys on an insertion-ordered list of entries
MapHas(m, k) == \E i \in 1..Len(m) : m[i].key = k
MapGet(m, k) == { m[i].value : i \in { j \in 1..Len(m) : m[j].key = k } }
MapSet_KeepFirst(m, k, v) ==
  IF MapHas(m, k) THEN m ELSE Append(m, [key |-> k, value |-> v])
MapSet_MoveToEnd(m, k, v) ==
  Append(SelectSeq(m, LAMBDA e : e.key # k), [key |-> k, value |-> v])
MapSet(m, k, v) ==
  IF MapHas(m, k)
  THEN [i \in 1..Len(m) |-> IF m[i].key = k THEN [key |-> k, value |-> v] ELSE m[i]]
  ELSE Append(m, [key |-> k, value |-> v])
MapKeys(m) == [i \in 1..Len(m) |-> m[i].key]

(***************************************************************************)
(* quench-utils                                                            *)
(***************************************************************************)
getBatchNameParts(batchKey) ==
  LET index == IndexOf(batchKey, ".")
  IN << Slice(batchKey, 0, index), Slice(batchKey, index + 1, Len(batchKey)) >>

\* QuenchSnapshotManager.getDefaultSnapDir: a deterministic, injective function of the key
getDefaultSnapDir(key) == <<"__snapshots__", "/">> \o key

(***************************************************************************)
(* QuenchSnapshotManager                                                   *)
(***************************************************************************)
\* the values test bodies compare
SnapValues == {"v1", "v2"}
\* the stable pretty-printer: the text a value is stored and compared as
Serialize(v) == IF v = "v2" THEN "s2" ELSE "s1"

\* the directories batches can have
SnapDirs == { getDefaultSnapDir(k) : k \in Keys } \cup { <<"S">> }
\* the snapshot directory of a batch
SnapDirOf(key, batches) ==
  IF MapHas(batches, key) THEN TheValue(MapGet(batches, key)).snapBaseDir
  ELSE getDefaultSnapDir(key)
\* the backing file of a record: one file for each top-level suite of the
\* directory, named by the first title of the identity
SnapFile(dir, id) == <<dir, id[1]>>

\* loadBatchSnaps(batchKeys): every directory of a registered batch of
\* batchKeys that is not cached is read into records and cached
\*   cache: the directories cached; reads: how often each directory was read;
\*   records: SnapshotRecords; storage: the records the files hold
snapshots_loadBatchSnaps_ReadAgain(cache, reads, records, storage, keys, batches) ==
  LET dirs == { SnapDirOf(keys[i], batches) : i \in { j \in 1..Len(keys) : MapHas(batches, keys[j]) } }
  IN [ cache |-> cache \cup dirs,
       reads |-> [d \in SnapDirs |-> IF d \in dirs THEN reads[d] + 1 ELSE reads[d]],
       records |-> { x \in records : x.dir \notin dirs } \cup
                   { [dir |-> e.dir, id |-> e.id, value |-> e.value, dirty |-> FALSE] :
                       e \in { x \in storage : x.dir \in dirs } } ]
snapshots_loadBatchSnaps(cache, reads, records, storage, keys, batches) ==
  LET dirs == { SnapDirOf(keys[i], batches) : i \in { j \in 1..Len(keys) : MapHas(batches, keys[j]) } }
      fresh == dirs \ cache
  IN [ cache |-> cache \cup fresh,
       reads |-> [d \in SnapDirs |-> IF d \in fresh THEN reads[d] + 1 ELSE reads[d]],
       records |-> records \cup
                   { [dir |-> e.dir, id |-> e.id, value |-> e.value, dirty |-> FALSE] :
                       e \in { x \in storage : x.dir \in fresh } } ]

\* compare(identity, actualValue) for a test of the directory dir
\*   mode: whether the store is in update mode
NoCompare == {}
snapshots_compare_KeepClean(records, mode, dir, id, v) ==
  LET rec == { x \in records : x.dir = dir /\ x.id = id }
  IN IF mode
     THEN [ records |-> (records \ rec) \cup
                          { [dir |-> dir, id |-> id, value |-> Serialize(v), dirty |-> FALSE] },
            result |-> "ok", path |-> {}, expected |-> {}, actual |-> {} ]
     ELSE IF rec = {}
     THEN [ records |-> records, result |-> "MissingSnapshot",
            path |-> {SnapFile(dir, id)}, expected |-> {}, actual |-> {} ]
     ELSE IF (CHOOSE x \in rec : TRUE).value = Serialize(v)
     THEN [ records |-> records, result |-> "ok", path |-> {}, expected |-> {}, actual |-> {} ]
     ELSE [ records |-> records, result |-> "AssertionError", path |-> {},
            expected |-> {(CHOOSE x \in rec : TRUE).value}, actual |-> {Serialize(v)} ]
snapshots_compare_AcceptMissing(records, mode, dir, id, v) ==
  LET rec == { x \in records : x.dir = dir /\ x.id = id }
  IN IF mode \/ rec = {}
     THEN [ records |-> (records \ rec) \cup
                          { [dir |-> dir, id |-> id, value |-> Serialize(v), dirty |-> TRUE] },
            result |-> "ok", path |-> {}, expected |-> {}, actual |-> {} ]
     ELSE IF (CHOOSE x \in rec : TRUE).value = Serialize(v)
     THEN [ records |-> records, result |-> "ok", path |-> {}, expected |-> {}, actual |-> {} ]
     ELSE [ records |-> records, result |-> "AssertionError", path |-> {},
            expected |-> {(CHOOSE x \in rec : TRUE).value}, actual |-> {Serialize(v)} ]
snapshots_compare(records, mode, dir, id, v) ==
  LET rec == { x \in records : x.dir = dir /\ x.id = id }
  IN IF mode
     THEN [ records |-> (records \ rec) \cup
                          { [dir |-> dir, id |-> id, value |-> Serialize(v), dirty |-> TRUE] },
            result |-> "ok", path |-> {}, expected |-> {}, actual |-> {} ]
     ELSE IF rec = {}
     THEN [ records |-> records, result |-> "MissingSnapshot",
            path |-> {SnapFile(dir, id)}, expected |-> {}, actual |-> {} ]
     ELSE IF (CHOOSE x \in rec : TRUE).value = Serialize(v)
     THEN [ records |-> records, result |-> "ok", path |-> {}, expected |-> {}, actual |-> {} ]
     ELSE [ records |-> records, result |-> "AssertionError", path |-> {},
            expected |-> {(CHOOSE x \in rec : TRUE).value}, actual |-> {Serialize(v)} ]

\* updateSnapshots(), when its writes complete: the value of every dirty
\* record is merged into the content of its backing file
snapshots_updateSnapshots_Overwrite(records, storage) ==
  LET dirty == { x \in records : x.dirty }
      files == { SnapFile(x.dir, x.id) : x \in dirty }
  IN [ storage |-> { e \in storage : SnapFile(e.dir, e.id) \notin files } \cup
                   { [dir |-> x.dir, id |-> x.id, value |-> x.value] : x \in dirty },
       records |-> { [x EXCEPT !.dirty = FALSE] : x \in records } ]
snapshots_updateSnapshots(records, storage) ==
  LET dirty == { x \in records : x.dirty }
  IN [ storage |-> { e \in storage : ~\E x \in dirty : x.dir = e.dir /\ x.id = e.id } \cup
                   { [dir |-> x.dir, id |-> x.id, value |-> x.value] : x \in dirty },
       records |-> { [x EXCEPT !.dirty = FALSE] : x \in records } ]

(***************************************************************************)
(* Suites and tests                                                        *)
(***************************************************************************)
\* quenchify(fn, key): the owning-batch marker of what a declaration primitive
\* of the context creates.  quenchFn tags its result with the key;
\* quenchFn.only and quenchFn.skip are fn.only and fn.skip themselves.
Quenchify(via, key) == IF via \in {"describe", "it"} THEN {key} ELSE {}

\* the suite or test a declaration creates (`by`: the batch whose registration
\* created it, recorded for the properties)
Declared(d, key) ==
  [ kind |-> d.kind, title |-> d.title, parent |-> d.parent,
    parentBatch |-> Quenchify(d.via, key),
    pending |-> d.via \in {"it.skip", "describe.skip"},
    body |-> d.body, state |-> "undefined", by |-> key ]

\* how the body of a wrapper suite ends:
\*   async () => { await this._testBatches.get(key)?.fn(context) }
\* "skipped": there is no such batch and the optional chain yields undefined;
\* "rejected": fn threw, which rejects the promise the body returns;
\* "suspended": fn awaits before it declares more; "fulfilled" otherwise
BodyOutcome(key, batches) ==
  LET def == MapGet(batches, key)
  IN IF def = {} THEN "skipped"
     ELSE IF Declares(TheValue(def).fn).throws THEN "rejected"
     ELSE IF Declares(TheValue(def).fn).late # NoLate THEN "suspended"
     ELSE "fulfilled"

\* what the body of a wrapper suite declares inside it
BodyItems(key, batches) ==
  LET def == MapGet(batches, key)
  IN IF def = {} THEN <<>>
     ELSE LET sync == Declares(TheValue(def).fn).sync
          IN [i \in 1..Len(sync) |-> Declared(sync[i], key)]

\* the suite a callback declares after its suspension: it is created under
\* the root suite, the wrapper suite's body having returned long before
LateSuite(key, fn) ==
  LET late == Declares(fn).late
  IN [ title |-> late[1].title, parentBatch |-> Quenchify(late[1].via, key),
       batchRoot |-> FALSE, by |-> key,
       items |-> [i \in 1..(Len(late) - 1) |->
                    Declared([late[i + 1] EXCEPT !.parent = 0], key)] ]

\* positions <<s, t>> in a root suite: item t of its s-th suite
PosLess(p, q) == p[1] < q[1] \/ (p[1] = q[1] /\ p[2] < q[2])
Runnable(tree) ==
  { q \in UNION { { <<s, t>> : t \in 1..Len(tree[s].items) } : s \in 1..Len(tree) } :
      tree[q[1]].items[q[2]].kind = "test" /\ ~tree[q[1]].items[q[2]].pending }
NextAfter(tree, p) == { q \in Runnable(tree) : PosLess(p, q) }
NextPos(tree, p) ==
  CHOOSE q \in NextAfter(tree, p) : \A o \in NextAfter(tree, p) : o = q \/ PosLess(q, o)

\* the suites that enclose position p, as <<s, i>>: the s-th suite of the
\* root (i = 0) and the describes inside it around item p[2]
RECURSIVE Enclosing(_, _)
Enclosing(items, i) ==
  IF i = 0 THEN {} ELSE {i} \cup Enclosing(items, items[i].parent)
OpenSuites(tree, p) ==
  IF p[1] = 0 THEN {}
  ELSE { <<p[1], 0>> } \cup
       { <<p[1], i>> : i \in Enclosing(tree[p[1]].items, tree[p[1]].items[p[2]].parent) }

(***************************************************************************)
(* quench-utils: states of tests and suites                                *)
(***************************************************************************)
getTestState(test) ==
  IF test.pending THEN "pending"
  ELSE IF test.state = "undefined" THEN "progress"
  ELSE IF test.state = "passed" THEN "success"
  ELSE "failure"

\* suite i of `items` (0: the suite that holds the items)
RECURSIVE getSuiteState_AllMustSucceed(_, _)
getSuiteState_AllMustSucceed(items, i) ==
  LET tests == { j \in 1..Len(items) : items[j].kind = "test" /\ items[j].parent = i }
      children == { j \in 1..Len(items) : items[j].kind = "suite" /\ items[j].parent = i }
  IN IF i # 0 /\ items[i].pending THEN "pending"
     ELSE IF \E j \in tests : getTestState(items[j]) # "success" THEN "failure"
     ELSE IF \E j \in children : getSuiteState_AllMustSucceed(items, j) # "success" THEN "failure"
     ELSE "success"
RECURSIVE getSuiteState(_, _)
getSuiteState(items, i) ==
  LET tests == { j \in 1..Len(items) : items[j].kind = "test" /\ items[j].parent = i }
      children == { j \in 1..Len(items) : items[j].kind = "suite" /\ items[j].parent = i }
  IN IF i # 0 /\ items[i].pending THEN "pending"
     ELSE IF \E j \in tests : getTestState(items[j]) = "failure" THEN "failure"
     ELSE IF \E j \in children : getSuiteState(items, j) = "failure" THEN "failure"
     ELSE "success"

\* the suite trees getSuiteState is applied to: up to MaxItems suites and
\* tests, each inside the suite that holds them all (parent 0) or inside a
\* suite declared before it, pending or not, a test in any state mocha gives
SuiteItems(tree) ==
  { x \in [kind : {"suite", "test"}, parent : 0..Len(tree), pending : BOOLEAN,
           state : {"undefined", "passed", "failed"}] :
      /\ x.parent # 0 => tree[x.parent].kind = "suite"
      /\ x.kind = "suite" => x.state = "undefined" }
RECURSIVE SuiteTrees(_)
SuiteTrees(n) ==
  IF n = 0 THEN { <<>> }
  ELSE LET shorter == SuiteTrees(n - 1)
       IN shorter \cup
          UNION { { Append(tree, x) : x \in SuiteItems(tree) } :
                    tree \in { t \in shorter : Len(t) = n - 1 } }

(***************************************************************************)
(* QuenchResults: the handlers the reporter calls.  The displayed tree is  *)
(* a set of entries [id, kind, status]; an entry can only be placed under  *)
(* the list item of its batch, which exists for every registered batch.    *)
(***************************************************************************)
SetStatus(disp, kind, id, status) ==
  { IF e.kind = kind /\ e.id = id THEN [e EXCEPT !.status = status] ELSE e : e \in disp }
HasEntry(disp, kind, id) == \E e \in disp : e.kind = kind /\ e.id = id
HasBatchItem(batchkey, batches) == batchkey # {} /\ MapHas(batches, TheValue(batchkey))

handleSuiteBegin_ShowRoots(disp, id, batchkey, isBatchRoot, batches) ==
  IF batchkey = {} THEN disp
  ELSE IF HasBatchItem(batchkey, batches)
  THEN disp \cup { [id |-> id, kind |-> "suite", status |-> "progress"] }
  ELSE disp
handleSuiteBegin(disp, id, batchkey, isBatchRoot, batches) ==
  IF batchkey = {} \/ isBatchRoot THEN disp
  ELSE IF HasBatchItem(batchkey, batches)
  THEN disp \cup { [id |-> id, kind |-> "suite", status |-> "progress"] }
  ELSE disp

handleSuiteEnd(disp, id, isBatchRoot, state) ==
  IF isBatchRoot THEN disp ELSE SetStatus(disp, "suite", id, state)

handleTestBegin(disp, id, batchKey, batches) ==
  IF HasBatchItem(batchKey, batches)
  THEN disp \cup { [id |-> id, kind |-> "test", status |-> "progress"] }
  ELSE disp

handleTestEnd(disp, id, test, batches) ==
  LET shown == IF HasEntry(disp, "test", id) THEN disp
               ELSE handleTestBegin(disp, id, test.parentBatch, batches)
  IN SetStatus(shown, "test", id, getTestState(test))

handleTestFail(disp, id) == SetStatus(disp, "test", id, "failure")

(***************************************************************************)
(* State                                                                   *)
(***************************************************************************)
VARIABLES
  game,             \* the host: TRUE once `game` is a Game instance
  uiNotifications,  \* the host: TRUE once ui.notifications exists
  notified,         \* messages shown through ui.notifications
  testBatches,      \* Quench._testBatches, a Map<string, BatchData>
  currentRunner,    \* Quench._currentRunner: {} (null) or {run}
  enableUpdates,    \* Quench.snapshots.enableUpdates: boolean | null
  mochaSuite,       \* mocha.suite: the engine's current root suite
  uiSuite,          \* the root suite the declaration primitives are bound to
  suites,           \* root suite -> the suites declared directly under it
  appState,         \* QuenchResults._state: "NONE", "RENDERED" or "ERROR"
  display,          \* QuenchResults: the displayed entries for suites and tests
  selected,         \* QuenchResults: the batches listed, each with its checkbox
  snapCache,        \* QuenchSnapshotManager: the directories cached
  snapRecords,      \* QuenchSnapshotManager: the SnapshotRecords in memory
  persisting,       \* QuenchSnapshotManager: the calls of updateSnapshots() in progress
  snapStorage,      \* the host's storage: the records the snapshot files hold
  snapReads,        \* for the properties: how often each directory was read
  lastCompare,      \* for the properties: the latest compare and its outcome
  snapAccepted,     \* for the properties: the value each record was last given by a compare
  suiteArg,         \* getSuiteState: the items of the suite tree it is applied to
  suiteResult,      \* getSuiteState: the suite it was applied to and what it returned
  pc,               \* per runSelectedBatches call: its position
  batchKeys,        \* per call: the batchKeys argument
  updateSnapshots,  \* per call: the local variable updateSnapshots
  runRoot,          \* per call: the root suite its runner executes
  lateTodo,         \* per call: the registration callbacks suspended, to resume
  aborted,          \* per call: its runner has been told to abort
  pos,              \* per call: the position of the test its runner began last
  executing,        \* per call: that test's body has not yet completed
  stats,            \* per call: the statistics of its runner
  \* history, recorded for the properties below
  nRegs, nSets, nRuns, nAborts,
  regOutcome,       \* how the last registerBatch call ended
  lastCall,         \* key -> arguments of the most recent registerBatch(key, ...)
  lastStored,       \* key -> arguments of the most recent registerBatch(key, ...) that returned
  superseded,       \* <<key, fn>> of the callbacks replaced by a different one
  regOrder,         \* the keys in the order of their first registration
  runArg,           \* per call: the updateSnapshots argument as passed
  viaAll,           \* per call, if it came from runAllBatches: the keys in the order of
                    \* their first registration
  stickySeen,       \* per call: snapshots.enableUpdates when the flag was resolved
  called,           \* per call: the registration callbacks invoked, in order
  invoked,          \* registration callbacks invoked so far, by anyone
  knownAtStart,     \* per call: <<key, fn>> of the selected keys registered at declaration
  runningAtStart,   \* per call: the runs in progress when its runner was started
  persisted,        \* per call: snapshots.updateSnapshots() invocations of its run-end listener
  declaredAt,       \* per call: where its wrapper suites were declared
  rootOutcome,      \* per call: how the body of each wrapper suite ended
  began,            \* per call: the positions of the tests its runner began, in order
  runEnds,          \* per call: run-end events of its runner
  abortSignal,      \* per call: what its runner was executing when abort() was called
                    \* while the handle designated it
  abortCall,        \* per call: what its runner was executing when abort() was called,
                    \* whatever the handle designated
  stickyUsedBy,     \* the calls that took their flag from the value enableUpdates holds
  lastSet,          \* the value last assigned to enableUpdates from outside
  controls,         \* the buttons of the window: which are disabled, which are shown
  enableSnapshotUpdates,  \* QuenchResults._enableSnapshotUpdates
  snapFailed        \* per call: a test of its run failed on a missing or differing snapshot

hostVars == <<game, uiNotifications, notified>>
registryVars == <<testBatches, nRegs, regOutcome, lastCall, lastStored, superseded, regOrder>>
engineVars == <<mochaSuite, uiSuite, suites>>
runVars == <<pc, batchKeys, updateSnapshots, runRoot, nRuns, runArg, stickySeen,
             called, invoked, knownAtStart, runningAtStart, persisted, viaAll>>
execVars == <<lateTodo, aborted, pos, executing, stats, declaredAt, rootOutcome, began,
              runEnds, nAborts, abortSignal, abortCall>>
surfaceVars == <<appState, display, selected>>
storeVars == <<snapCache, snapRecords, persisting, snapStorage, snapReads, lastCompare,
               snapAccepted>>
flagVars == <<enableUpdates, nSets, stickyUsedBy, lastSet>>
utilVars == <<suiteArg, suiteResult>>
offerVars == <<controls, enableSnapshotUpdates, snapFailed>>
vars == <<hostVars, registryVars, engineVars, runVars, execVars, surfaceVars, flagVars,
          storeVars, utilVars, offerVars, currentRunner>>

\* the buttons as a render leaves them: getData() hands the template the
\* batches and nothing about a run, so every render gives the same buttons,
\* the ones a window opened before any run has
TemplateControls ==
  [runDisabled |-> FALSE, selectDisabled |-> FALSE, abortShown |-> FALSE, updateShown |-> FALSE]

\* the window's element exists once it was rendered
HasElement == appState # "NONE"

\* handleRunBegin and handleRunEnd: the buttons found in this.element
handleRunBegin(ctrl) ==
  IF HasElement
  THEN [runDisabled |-> TRUE, selectDisabled |-> TRUE, abortShown |-> TRUE, updateShown |-> FALSE]
  ELSE ctrl
handleRunEnd(ctrl, enable) ==
  IF HasElement
  THEN [runDisabled |-> FALSE, selectDisabled |-> FALSE, abortShown |-> FALSE,
        updateShown |-> ctrl.updateShown \/ enable]
  ELSE ctrl

\* the error handleTestFail is given: whether it is a MissingSnapshotError,
\* whether it carries snapshotError, whether actual and expected are strings
PlainError == [missing |-> FALSE, snapshotError |-> FALSE, diff |-> FALSE]
ErrorOf(result) ==
  IF result = "MissingSnapshot" THEN [missing |-> TRUE, snapshotError |-> FALSE, diff |-> FALSE]
  ELSE IF result = "AssertionError"
       THEN [missing |-> FALSE, snapshotError |-> TRUE, diff |-> TRUE]
       ELSE PlainError
IsSnapshotFailure(error) == error.snapshotError \/ error.missing

\* handleTestFail renders the diff into errorElement[0], which is undefined
\* when the window shows no list item for the test: a TypeError is thrown
\* before the status and the flag are set
ThrowsOnDiff(disp, id, error) == error.diff /\ ~HasEntry(disp, "test", id)
EnableAfterFail(enable, disp, id, error) ==
  IF ThrowsOnDiff(disp, id, error) THEN enable ELSE enable \/ IsSnapshotFailure(error)

Roots == 0..MaxRuns   \* 0 is the root suite the engine starts with

\* the snapshot files the host's storage holds at first, both in the
\* directory of KeyA: in the file of KeyA a record of a test that exists no
\* more, in the file of KeyB the record of its test
InitialStorage ==
  { [dir |-> getDefaultSnapDir(KeyA), id |-> <<KeyA \o <<"_root">>, "S", "t0">>, value |-> "s1"],
    [dir |-> getDefaultSnapDir(KeyA), id |-> <<KeyB \o <<"_root">>, "S", "t1">>, value |-> "s2"] }

\* getSuiteState has not been called
NoSuiteCall ==
  /\ suiteArg = <<>>
  /\ suiteResult = {}

\* the orchestrator, the engine and the snapshot manager as constructed
Constructed ==
  /\ currentRunner = {}
  /\ enableUpdates = {}
  /\ mochaSuite = 0
  /\ uiSuite = 0
  /\ suites = [s \in Roots |-> <<>>]
  /\ display = {}
  /\ pc = [r \in Runs |-> "none"]
  /\ batchKeys = [r \in Runs |-> <<>>]
  /\ updateSnapshots = [r \in Runs |-> {}]
  /\ runRoot = [r \in Runs |-> 0]
  /\ lateTodo = [r \in Runs |-> <<>>]
  /\ aborted = [r \in Runs |-> FALSE]
  /\ pos = [r \in Runs |-> <<0, 0>>]
  /\ executing = [r \in Runs |-> FALSE]
  /\ stats = [r \in Runs |-> [tests |-> 0, passes |-> 0, failures |-> 0]]
  /\ nSets = 0
  /\ nRuns = 0
  /\ nAborts = 0
  /\ runArg = [r \in Runs |-> {}]
  /\ viaAll = [r \in Runs |-> {}]
  /\ stickySeen = [r \in Runs |-> {}]
  /\ called = [r \in Runs |-> <<>>]
  /\ invoked = 0
  /\ knownAtStart = [r \in Runs |-> {}]
  /\ runningAtStart = [r \in Runs |-> {}]
  /\ persisted = [r \in Runs |-> 0]
  /\ declaredAt = [r \in Runs |-> {}]
  /\ rootOutcome = [r \in Runs |-> <<>>]
  /\ began = [r \in Runs |-> <<>>]
  /\ runEnds = [r \in Runs |-> 0]
  /\ abortSignal = [r \in Runs |-> {}]
  /\ abortCall = [r \in Runs |-> {}]
  /\ stickyUsedBy = {}
  /\ lastSet = {}
  /\ snapCache = {}
  /\ snapRecords = {}
  /\ persisting = 0
  /\ snapStorage = InitialStorage
  /\ snapReads = [d \in SnapDirs |-> 0]
  /\ lastCompare = NoCompare
  /\ controls = TemplateControls
  /\ enableSnapshotUpdates = FALSE
  /\ snapFailed = [r \in Runs |-> FALSE]
  /\ snapAccepted = {}

\* the state after `new Quench()`: the results window is not rendered
Init ==
  /\ game = FALSE
  /\ uiNotifications = FALSE
  /\ notified = {}
  /\ testBatches = <<>>
  /\ appState = "NONE"
  /\ selected = <<>>
  /\ nRegs = 0
  /\ regOutcome = "none"
  /\ lastCall = [k \in Keys |-> {}]
  /\ lastStored = [k \in Keys |-> {}]
  /\ superseded = {}
  /\ regOrder = <<>>
  /\ Constructed
  /\ NoSuiteCall

(***************************************************************************)
(* The host                                                                *)
(***************************************************************************)
\* the host creates its Game instance
HostCreateGame ==
  /\ ~game
  /\ game' = TRUE
  /\ UNCHANGED utilVars
  /\ UNCHANGED offerVars
  /\ UNCHANGED <<storeVars, uiNotifications, notified, registryVars, engineVars, runVars, execVars,
                 surfaceVars, flagVars, currentRunner>>

\* the host, once its Game exists, creates ui.notifications
HostCreateNotifications ==
  /\ game
  /\ ~uiNotifications
  /\ uiNotifications' = TRUE
  /\ UNCHANGED utilVars
  /\ UNCHANGED offerVars
  /\ UNCHANGED <<storeVars, game, notified, registryVars, engineVars, runVars, execVars,
                 surfaceVars, flagVars, currentRunner>>

\* getGame(): throws when `game` is not a Game instance
getGame == IF game THEN "game" ELSE "threw"

(***************************************************************************)
(* QuenchResults.clear                                                     *)
(***************************************************************************)
\* a re-render replaces the displayed results; nothing happens when the
\* window is not rendered
Cleared(disp) == IF appState = "RENDERED" THEN {} ELSE disp

\* the list of batches after a render: getData() lists every registered batch
\* with `selected: value.preSelected`; clear() then gives each list item whose
\* key was listed before the checkbox state it had before
\*   sel: the list before the render (`checked`), <<>> for a first render
Rerender_FromData(sel, batches) ==
  [i \in 1..Len(batches) |-> [key |-> batches[i].key, checked |-> batches[i].value.preSelected]]
Rerender(sel, batches) ==
  [i \in 1..Len(batches) |->
     [key |-> batches[i].key,
      checked |-> IF \E j \in 1..Len(sel) : sel[j].key = batches[i].key
                  THEN sel[CHOOSE j \in 1..Len(sel) :
                             /\ sel[j].key = batches[i].key
                             /\ \A k \in 1..(j - 1) : sel[k].key # batches[i].key].checked
                  ELSE batches[i].value.preSelected]]

(***************************************************************************)
(* Quench.registerBatch                                                    *)
(***************************************************************************)
\* [...getGame().modules, [getGame().system.id]].map(([pName]) => pName)
KnownPackages == GameModules \cup { GameSystemId }

BatchData(key, fn, context) ==
  [ displayName |-> TheValue(Coalesce(context.displayName, {key})),
    fn |-> fn,
    snapBaseDir |-> TheValue(Coalesce(context.snapBaseDir, {getDefaultSnapDir(key)})),
    preSelected |-> TheValue(Coalesce(context.preSelected, {TRUE})) ]

\* the messages registerBatch shows: ui?.notifications?.error / warn
RegisterNotifications(key) ==
  LET packageName == getBatchNameParts(key)[1]
  IN IF ~uiNotifications THEN {}
     ELSE (IF packageName \notin KnownPackages
           THEN { <<"error", "ERROR.InvalidPackageName", key>> } ELSE {})
          \cup
          (IF MapHas(testBatches, key)
           THEN { <<"warn", "QUENCH.WARN.BatchAlreadyExists", key>> } ELSE {})

registerBatch(key, fn, context) ==
  /\ nRegs < MaxRegs
  /\ nRegs' = nRegs + 1
  /\ lastCall' = [lastCall EXCEPT ![key] = {[fn |-> fn, context |-> context]}]
  /\ IF getGame = "threw"
     THEN \* getGame() throws "Game is not initialized yet!" before anything is stored
          /\ regOutcome' = "threw"
          /\ UNCHANGED <<testBatches, notified, lastStored, superseded, regOrder, display,
                         selected, controls>>
     ELSE /\ regOutcome' = "returned"
          /\ notified' = notified \cup RegisterNotifications(key)
          /\ testBatches' = MapSet(testBatches, key, BatchData(key, fn, context))
          /\ display' = Cleared(display)
          /\ controls' = IF appState = "RENDERED" THEN TemplateControls ELSE controls
          /\ selected' = IF appState = "RENDERED" THEN Rerender(selected, testBatches')
                         ELSE selected
          /\ lastStored' = [lastStored EXCEPT ![key] = {[fn |-> fn, context |-> context]}]
          /\ superseded' = superseded \cup
                            { <<key, c.fn>> : c \in { d \in lastStored[key] : d.fn # fn } }
          /\ regOrder' = IF \E i \in 1..Len(regOrder) : regOrder[i] = key
                         THEN regOrder ELSE Append(regOrder, key)
  /\ UNCHANGED utilVars
  /\ UNCHANGED <<enableSnapshotUpdates, snapFailed>>
  /\ UNCHANGED <<storeVars, game, uiNotifications, engineVars, runVars, execVars, appState, flagVars,
                 currentRunner>>

getBatch(key) == MapGet(testBatches, key)

(***************************************************************************)
(* QuenchResults: the list of batches and its controls                     *)
(***************************************************************************)
\* the window is opened: the first render lists what getData() returns
OpenWindow ==
  /\ appState = "NONE"
  /\ appState' = "RENDERED"
  /\ selected' = Rerender(<<>>, testBatches)
  /\ UNCHANGED utilVars
  /\ controls' = TemplateControls
  /\ UNCHANGED <<enableSnapshotUpdates, snapFailed>>
  /\ UNCHANGED <<storeVars, hostVars, registryVars, engineVars, runVars, execVars, display, flagVars,
                 currentRunner>>

\* the user clicks the checkbox of one batch of the list
ToggleBatch(i) ==
  /\ appState = "RENDERED"
  /\ i \in 1..Len(selected)
  /\ selected' = [selected EXCEPT ![i].checked = ~selected[i].checked]
  /\ UNCHANGED utilVars
  /\ UNCHANGED offerVars
  /\ UNCHANGED <<storeVars, hostVars, registryVars, engineVars, runVars, execVars, appState, display,
                 flagVars, currentRunner>>

\* #quench-select-all and #quench-select-none
SetAllChecked(value) ==
  /\ appState = "RENDERED"
  /\ ~controls.selectDisabled
  /\ selected' = [i \in 1..Len(selected) |-> [selected[i] EXCEPT !.checked = value]]
  /\ UNCHANGED utilVars
  /\ UNCHANGED offerVars
  /\ UNCHANGED <<storeVars, hostVars, registryVars, engineVars, runVars, execVars, appState, display,
                 flagVars, currentRunner>>
SelectAll == SetAllChecked(TRUE)
SelectNone == SetAllChecked(FALSE)

(***************************************************************************)
(* Quench.runSelectedBatches                                               *)
(***************************************************************************)
\* updateSnapshots ?? this.snapshots.enableUpdates ?? false
ResolveUpdateFlag_Or(explicit, sticky) ==
  (explicit = {TRUE}) \/ (sticky = {TRUE})
ResolveUpdateFlag(explicit, sticky) ==
  TheValue(Coalesce(Coalesce(explicit, sticky), {FALSE}))

\* the wrapper suites the loop declares, one per element of batchKeys, each
\* created through the context's describe and then marked as a batch root
BatchRootSuites_StopAtFailure(keys, batches) ==
  LET failing == { i \in 1..Len(keys) : BodyOutcome(keys[i], batches) \in {"skipped", "rejected"} }
      last == IF failing = {} THEN Len(keys)
              ELSE CHOOSE i \in failing : \A j \in failing : i <= j
  IN [i \in 1..last |->
        [title |-> keys[i] \o <<"_root">>, parentBatch |-> Quenchify("describe", keys[i]),
         batchRoot |-> TRUE, by |-> keys[i], items |-> BodyItems(keys[i], batches)]]
BatchRootSuites_Reversed(keys, batches) ==
  [i \in 1..Len(keys) |->
     LET key == keys[Len(keys) + 1 - i]
     IN [title |-> key \o <<"_root">>, parentBatch |-> Quenchify("describe", key),
         batchRoot |-> TRUE, by |-> key, items |-> BodyItems(key, batches)]]
BatchRootSuites(keys, batches) ==
  [i \in 1..Len(keys) |->
     [title |-> keys[i] \o <<"_root">>, parentBatch |-> Quenchify("describe", keys[i]),
      batchRoot |-> TRUE, by |-> keys[i], items |-> BodyItems(keys[i], batches)]]

\* the registration callbacks the wrapper suites' bodies invoke while the loop
\* declares them: this._testBatches.get(key)?.fn(context)
RECURSIVE RegistrationCalls_Distinct(_, _)
RegistrationCalls_Distinct(keys, batches) ==
  IF keys = <<>> THEN <<>>
  ELSE LET before == RegistrationCalls_Distinct(SubSeq(keys, 1, Len(keys) - 1), batches)
           key == keys[Len(keys)]
           def == MapGet(batches, key)
       IN IF def = {} \/ (\E i \in 1..Len(before) : before[i].key = key)
          THEN before
          ELSE Append(before, [key |-> key, fn |-> TheValue(def).fn])
RECURSIVE RegistrationCalls(_, _)
RegistrationCalls(keys, batches) ==
  IF keys = <<>> THEN <<>>
  ELSE LET before == RegistrationCalls(SubSeq(keys, 1, Len(keys) - 1), batches)
           key == keys[Len(keys)]
           def == MapGet(batches, key)
       IN IF def = {} THEN before
          ELSE Append(before, [key |-> key, fn |-> TheValue(def).fn])

\* the callbacks that suspended before declaring everything
Suspended(calls) == SelectSeq(calls, LAMBDA c : Declares(c.fn).late # NoLate)

\* the call itself, up to `await this.app.clear()`: a fresh root suite
\* (sticky: the value snapshots.enableUpdates is left with; all: recorded
\* for the properties when the call comes from runAllBatches)
CallBegins(keys, explicit, sticky, all) ==
  /\ nRuns < MaxRuns
  /\ LET r == nRuns + 1
     IN /\ nRuns' = r
        /\ pc' = [pc EXCEPT ![r] = "clear"]
        /\ batchKeys' = [batchKeys EXCEPT ![r] = keys]
        /\ updateSnapshots' = [updateSnapshots EXCEPT ![r] = explicit]
        /\ runArg' = [runArg EXCEPT ![r] = explicit]
        /\ viaAll' = [viaAll EXCEPT ![r] = all]
        /\ mochaSuite' = r
  /\ enableUpdates' = sticky
  /\ UNCHANGED utilVars
  /\ UNCHANGED offerVars
  /\ UNCHANGED <<storeVars, hostVars, registryVars, uiSuite, suites, runRoot, stickySeen, called,
                 invoked, knownAtStart, runningAtStart, persisted, execVars, surfaceVars,
                 nSets, stickyUsedBy, lastSet, currentRunner>>

runSelectedBatches_ResetFlag(keys, explicit) == CallBegins(keys, explicit, {}, {})
runSelectedBatches(keys, explicit) == CallBegins(keys, explicit, enableUpdates, {})

\* app.clear() has settled: mocha.setup binds describe/it to the current root
\* suite, the context is built and loadBatchSnaps is awaited
ClearSettles(r, state) ==
  /\ pc[r] = "clear"
  /\ pc' = [pc EXCEPT ![r] = "load"]
  /\ uiSuite' = mochaSuite
  /\ appState' = state
  /\ display' = IF state = "RENDERED" THEN {} ELSE display
  /\ selected' = IF appState = "RENDERED" /\ state = "RENDERED"
                 THEN Rerender(selected, testBatches) ELSE selected
  /\ UNCHANGED utilVars
  /\ controls' = IF appState = "RENDERED" /\ state = "RENDERED"
                 THEN TemplateControls ELSE controls
  /\ UNCHANGED <<enableSnapshotUpdates, snapFailed>>
  /\ UNCHANGED <<storeVars, hostVars, registryVars, mochaSuite, suites, batchKeys, updateSnapshots,
                 runRoot, nRuns, runArg, viaAll, stickySeen, called, invoked, knownAtStart,
                 runningAtStart, persisted, execVars, flagVars, currentRunner>>

\* clear() returned at once (window not rendered) or re-rendered the window
ClearDone(r) == ClearSettles(r, appState)

\* clear(): the re-render threw; the error is caught and logged, the window
\* is left in the ERROR state and clear() settles all the same
ClearRenderError(r) ==
  /\ appState = "RENDERED"
  /\ ClearSettles(r, "ERROR")

\* this._currentRunner = this.mocha.run()
RunnerAfterStart_IfIdle(r) == IF currentRunner = {} THEN {r} ELSE currentRunner
RunnerAfterStart(r) == {r}

\* loadBatchSnaps has settled: the flag is resolved, the batches are declared
\* (their registration callbacks run) and the engine is started
\* await this.snapshots.loadBatchSnaps(batchKeys): what the call has done to
\* the store when runSelectedBatches goes on
AwaitLoadBatchSnaps_NotAwaited(cache, reads, records, storage, keys, batches) ==
  [ cache |-> cache, reads |-> reads, records |-> records ]
AwaitLoadBatchSnaps(cache, reads, records, storage, keys, batches) ==
  snapshots_loadBatchSnaps(cache, reads, records, storage, keys, batches)

StartRun(r) ==
  /\ pc[r] = "load"
  /\ pc' = [pc EXCEPT ![r] = "running"]
  /\ LET flag == ResolveUpdateFlag(updateSnapshots[r], enableUpdates)
         calls == RegistrationCalls(batchKeys[r], testBatches)
     IN /\ updateSnapshots' = [updateSnapshots EXCEPT ![r] = {flag}]
        /\ called' = [called EXCEPT ![r] = calls]
        /\ invoked' = invoked + Len(calls)
        /\ lateTodo' = [lateTodo EXCEPT ![r] = Suspended(calls)]
  /\ suites' = [suites EXCEPT ![uiSuite] = @ \o BatchRootSuites(batchKeys[r], testBatches)]
  /\ declaredAt' = [declaredAt EXCEPT ![r] = { [root |-> uiSuite, from |-> Len(suites[uiSuite])] }]
  /\ rootOutcome' = [rootOutcome EXCEPT ![r] =
                       [i \in 1..Len(batchKeys[r]) |-> BodyOutcome(batchKeys[r][i], testBatches)]]
  /\ runRoot' = [runRoot EXCEPT ![r] = mochaSuite]
  /\ currentRunner' = RunnerAfterStart(r)
  /\ stickySeen' = [stickySeen EXCEPT ![r] = enableUpdates]
  /\ knownAtStart' =
       [knownAtStart EXCEPT ![r] =
          { <<batchKeys[r][i], TheValue(lastStored[batchKeys[r][i]]).fn>> :
               i \in { j \in 1..Len(batchKeys[r]) : lastStored[batchKeys[r][j]] # {} } }]
  /\ stickyUsedBy' = IF updateSnapshots[r] = {} /\ enableUpdates # {}
                     THEN stickyUsedBy \cup {r} ELSE stickyUsedBy
  /\ runningAtStart' = [runningAtStart EXCEPT ![r] = { q \in Runs : pc[q] = "running" }]
  /\ LET loaded == AwaitLoadBatchSnaps(snapCache, snapReads, snapRecords, snapStorage,
                                        batchKeys[r], testBatches)
     IN /\ snapCache' = loaded.cache
        /\ snapReads' = loaded.reads
        /\ snapRecords' = loaded.records
  /\ UNCHANGED utilVars
  /\ controls' = handleRunBegin(controls)
  /\ enableSnapshotUpdates' = FALSE
  /\ UNCHANGED snapFailed
  /\ UNCHANGED <<persisting, snapStorage, lastCompare, snapAccepted>>
  /\ UNCHANGED <<hostVars, registryVars, mochaSuite, uiSuite, batchKeys, nRuns, runArg,
                 viaAll, persisted, enableUpdates, nSets, lastSet, aborted, pos, executing,
                 stats, began, runEnds, nAborts, abortSignal, abortCall, surfaceVars>>

\* loadBatchSnaps rejected while reading the directory of one of the batches:
\* the await throws, runSelectedBatches rejects and nothing after it is executed
LoadRejected(r) ==
  /\ pc[r] = "load"
  /\ batchKeys[r] # <<>>
  /\ pc' = [pc EXCEPT ![r] = "rejected"]
  /\ UNCHANGED utilVars
  /\ UNCHANGED offerVars
  /\ UNCHANGED <<storeVars, hostVars, registryVars, engineVars, batchKeys, updateSnapshots, runRoot,
                 nRuns, runArg, viaAll, stickySeen, called, invoked, knownAtStart,
                 runningAtStart, persisted, execVars, surfaceVars, flagVars, currentRunner>>

\* a registration callback resumes after its suspension and declares its suite
\* through the context it was given
LateDeclare(r) ==
  /\ lateTodo[r] # <<>>
  /\ lateTodo' = [lateTodo EXCEPT ![r] = Tail(@)]
  /\ suites' = [suites EXCEPT ![uiSuite] =
                  Append(@, LateSuite(Head(lateTodo[r]).key, Head(lateTodo[r]).fn))]
  /\ UNCHANGED utilVars
  /\ UNCHANGED offerVars
  /\ UNCHANGED <<storeVars, hostVars, registryVars, mochaSuite, uiSuite, runVars, aborted, pos,
                 executing, stats, declaredAt, rootOutcome, began, runEnds, nAborts,
                 abortSignal, abortCall, surfaceVars, flagVars, currentRunner>>

(***************************************************************************)
(* The engine's runner and the reporter, which relays the runner's events  *)
(* to the handlers of QuenchResults                                        *)
(***************************************************************************)
SuiteBatchKey(tree, x) ==
  IF x[2] = 0 THEN tree[x[1]].parentBatch ELSE tree[x[1]].items[x[2]].parentBatch
SuiteIsBatchRoot(tree, x) == x[2] = 0 /\ tree[x[1]].batchRoot
SuiteState(tree, x) == getSuiteState(tree[x[1]].items, x[2])

\* suite-begin, suite-end for each of a set of suites of a root
RECURSIVE SuitesBegin(_, _, _, _)
SuitesBegin(disp, root, tree, xs) ==
  IF xs = {} THEN disp
  ELSE LET x == CHOOSE y \in xs : TRUE
       IN SuitesBegin(handleSuiteBegin(disp, <<root, x[1], x[2]>>, SuiteBatchKey(tree, x),
                                       SuiteIsBatchRoot(tree, x), testBatches),
                      root, tree, xs \ {x})
RECURSIVE SuitesEnd(_, _, _, _)
SuitesEnd(disp, root, tree, xs) ==
  IF xs = {} THEN disp
  ELSE LET x == CHOOSE y \in xs : TRUE
       IN SuitesEnd(handleSuiteEnd(disp, <<root, x[1], x[2]>>, SuiteIsBatchRoot(tree, x),
                                   SuiteState(tree, x)),
                    root, tree, xs \ {x})

\* the handlers act on the window's element, which exists once rendered
Shown(disp) == IF appState = "NONE" THEN display ELSE disp

\* the runner goes on to the next test, depth-first in declaration order,
\* unless it was told to abort: the suites left end, the suites entered
\* begin, the test begins
\* the identity of a test: its full title, the titles of the suites around it
\* followed by its own
RECURSIVE TitlePath(_, _)
TitlePath(items, t) ==
  (IF items[t].parent = 0 THEN <<>> ELSE TitlePath(items, items[t].parent)) \o <<items[t].title>>
SnapIdentity(tree, q) == <<tree[q[1]].title>> \o TitlePath(tree[q[1]].items, q[2])
\* whether the store is in update mode: nothing but snapshots.enableUpdates
\* passes from the orchestrator to the store
CompareMode(sticky) == sticky = {TRUE}

TestBegin(r) ==
  /\ pc[r] = "running"
  /\ ~executing[r]
  /\ ~aborted[r]
  /\ NextAfter(suites[runRoot[r]], pos[r]) # {}
  /\ LET root == runRoot[r]
         tree == suites[root]
         q == NextPos(tree, pos[r])
         left == OpenSuites(tree, pos[r]) \ OpenSuites(tree, q)
         entered == OpenSuites(tree, q) \ OpenSuites(tree, pos[r])
         d1 == SuitesEnd(display, root, tree, left)
         d2 == SuitesBegin(d1, root, tree, entered)
     IN /\ pos' = [pos EXCEPT ![r] = q]
        /\ began' = [began EXCEPT ![r] = Append(@, q)]
        /\ display' = Shown(handleTestBegin(d2, <<root, q[1], q[2]>>,
                                            tree[q[1]].items[q[2]].parentBatch, testBatches))
  /\ executing' = [executing EXCEPT ![r] = TRUE]
  /\ UNCHANGED utilVars
  /\ UNCHANGED offerVars
  /\ UNCHANGED <<storeVars, hostVars, registryVars, engineVars, runVars, lateTodo, aborted, stats,
                 declaredAt, rootOutcome, runEnds, nAborts, abortSignal, abortCall,
                 appState, selected, flagVars, currentRunner>>

\* the body of the test in execution completes: the test passes or fails
TestEnd(r) ==
  /\ pc[r] = "running"
  /\ executing[r]
  /\ LET root == runRoot[r]
         q == pos[r]
         test == suites[root][q[1]].items[q[2]]
         snap == test.body = "snap"
     IN \E v \in (IF snap THEN SnapValues ELSE {"v1"}) :
          LET dir == SnapDirOf(TheValue(test.parentBatch), testBatches)
              id == SnapIdentity(suites[root], q)
              mode == CompareMode(enableUpdates)
              cmp == snapshots_compare(snapRecords, mode, dir, id, v)
              passes == IF snap THEN cmp.result = "ok" ELSE test.body = "pass"
              done == [test EXCEPT !.state = IF passes THEN "passed" ELSE "failed"]
              error == IF snap THEN ErrorOf(cmp.result) ELSE PlainError
              d1 == IF done.state = "failed" THEN handleTestFail(display, <<root, q[1], q[2]>>)
                    ELSE display
          IN /\ suites' = [suites EXCEPT ![root][q[1]].items[q[2]] = done]
             /\ stats' = [stats EXCEPT ![r] =
                            [tests |-> @.tests + 1,
                             passes |-> @.passes + (IF done.state = "passed" THEN 1 ELSE 0),
                             failures |-> @.failures + (IF done.state = "failed" THEN 1 ELSE 0)]]
             /\ display' = Shown(handleTestEnd(d1, <<root, q[1], q[2]>>, done, testBatches))
             /\ enableSnapshotUpdates' =
                  IF done.state = "failed"
                  THEN EnableAfterFail(enableSnapshotUpdates, display, <<root, q[1], q[2]>>, error)
                  ELSE enableSnapshotUpdates
             /\ snapFailed' = [snapFailed EXCEPT ![r] =
                                @ \/ (done.state = "failed" /\ IsSnapshotFailure(error))]
             /\ snapRecords' = IF snap THEN cmp.records ELSE snapRecords
             /\ lastCompare' =
                  IF snap
                  THEN {[run |-> r, dir |-> dir, id |-> id, v |-> v, mode |-> mode,
                         result |-> cmp.result, path |-> cmp.path,
                         expected |-> cmp.expected, actual |-> cmp.actual]}
                  ELSE lastCompare
             /\ snapAccepted' =
                  IF snap /\ mode
                  THEN { a \in snapAccepted : ~(a.dir = dir /\ a.id = id) } \cup
                       { [dir |-> dir, id |-> id, v |-> v] }
                  ELSE snapAccepted
  /\ executing' = [executing EXCEPT ![r] = FALSE]
  /\ UNCHANGED utilVars
  /\ UNCHANGED controls
  /\ UNCHANGED <<snapCache, persisting, snapStorage, snapReads>>
  /\ UNCHANGED <<hostVars, registryVars, mochaSuite, uiSuite, runVars, lateTodo, aborted,
                 pos, declaredAt, rootOutcome, began, runEnds, nAborts, abortSignal,
                 abortCall, appState, selected, flagVars, currentRunner>>

\* the runner has nothing more to execute: no test is in execution and it was
\* told to abort or no test is left
EngineDone(r) ==
  /\ ~executing[r]
  /\ aborted[r] \/ NextAfter(suites[runRoot[r]], pos[r]) = {}

\* the run ends: the suites still open end, and the listener of EVENT_RUN_END
\* that runSelectedBatches registered with once() runs
\*   runner: what _currentRunner is set to; persist: whether updateSnapshots()
\*   is called; sticky: what snapshots.enableUpdates is set to
RunEndListener(r, runner, persist, sticky) ==
  /\ pc[r] = "running"
  /\ EngineDone(r)
  /\ pc' = [pc EXCEPT ![r] = "ended"]
  /\ runEnds' = [runEnds EXCEPT ![r] = @ + 1]
  /\ display' = Shown(SuitesEnd(display, runRoot[r], suites[runRoot[r]],
                                OpenSuites(suites[runRoot[r]], pos[r])))
  /\ currentRunner' = runner
  /\ persisted' = [persisted EXCEPT ![r] = IF persist THEN @ + 1 ELSE @]
  /\ enableUpdates' = sticky
  /\ stickyUsedBy' = {}
  /\ persisting' = IF persist THEN persisting + 1 ELSE persisting
  /\ UNCHANGED utilVars
  /\ controls' = handleRunEnd(controls, enableSnapshotUpdates)
  /\ UNCHANGED <<enableSnapshotUpdates, snapFailed>>
  /\ UNCHANGED <<snapCache, snapRecords, snapStorage, snapReads, lastCompare, snapAccepted>>
  /\ UNCHANGED <<hostVars, registryVars, engineVars, batchKeys, updateSnapshots, runRoot,
                 nRuns, runArg, viaAll, stickySeen, called, invoked, knownAtStart,
                 runningAtStart, nSets, lastSet, lateTodo, aborted, pos, executing, stats,
                 declaredAt, rootOutcome, began, nAborts, abortSignal, abortCall, appState,
                 selected>>

RunEnd_KeepRunner(r) == RunEndListener(r, currentRunner, updateSnapshots[r] = {TRUE}, {})
RunEnd_StickyAtEnd(r) == RunEndListener(r, {}, enableUpdates = {TRUE}, {})
RunEnd_KeepFlag(r) == RunEndListener(r, {}, updateSnapshots[r] = {TRUE}, enableUpdates)
RunEnd(r) == RunEndListener(r, {}, updateSnapshots[r] = {TRUE}, {})

\* the writes of a call of updateSnapshots() complete
PersistDone ==
  /\ persisting > 0
  /\ persisting' = persisting - 1
  /\ LET written == snapshots_updateSnapshots(snapRecords, snapStorage)
     IN /\ snapStorage' = written.storage
        /\ snapRecords' = written.records
  /\ UNCHANGED utilVars
  /\ UNCHANGED offerVars
  /\ UNCHANGED <<hostVars, registryVars, engineVars, runVars, execVars, surfaceVars, flagVars,
                 snapCache, snapReads, lastCompare, snapAccepted, currentRunner>>

(***************************************************************************)
(* Quench.abort                                                            *)
(***************************************************************************)
\* Runner.abort(): the runner is told to stop; it looks at this before it
\* begins a test, never while a test is in execution
RunnerAbort(flags, runner) == [r \in Runs |-> flags[r] \/ r \in runner]

\* this._currentRunner?.abort()
AbortCall(runner, handle) ==
  /\ nAborts < MaxAborts
  /\ nAborts' = nAborts + 1
  /\ aborted' = RunnerAbort(aborted, runner)
  /\ currentRunner' = handle
  /\ abortSignal' = [r \in Runs |->
                       IF r \in currentRunner /\ abortSignal[r] = {} /\ executing[r] THEN {pos[r]}
                       ELSE abortSignal[r]]
  /\ abortCall' = [r \in Runs |->
                     IF pc[r] = "running" /\ executing[r] /\ abortCall[r] = {} THEN {pos[r]}
                     ELSE abortCall[r]]
  /\ UNCHANGED utilVars
  /\ UNCHANGED offerVars
  /\ UNCHANGED <<storeVars, hostVars, registryVars, engineVars, runVars, lateTodo, pos, executing,
                 stats, declaredAt, rootOutcome, began, runEnds, surfaceVars, flagVars>>

abort_ClearHandle == AbortCall(currentRunner, {})
abort_Unsignalled == AbortCall({}, currentRunner)
abort == AbortCall(currentRunner, currentRunner)

(***************************************************************************)
(* QuenchSnapshotManager.enableUpdates, assigned from outside              *)
(***************************************************************************)
SetEnableUpdates(v) ==
  /\ nSets < MaxSets
  /\ nSets' = nSets + 1
  /\ enableUpdates' = {v}
  /\ lastSet' = {v}
  /\ stickyUsedBy' = {}
  /\ UNCHANGED utilVars
  /\ UNCHANGED offerVars
  /\ UNCHANGED <<storeVars, hostVars, registryVars, engineVars, runVars, execVars, surfaceVars,
                 currentRunner>>

\* Snapshots: two batches whose tests compare a value with its snapshot,
\* KeyB keeping its snapshots in the directory of KeyA
SnapBatches ==
  << [key |-> KeyA, value |-> BatchData(KeyA, "fS", NoOptions)],
     [key |-> KeyB, value |-> BatchData(KeyB, "fS",
                                [NoOptions EXCEPT !.snapBaseDir = {getDefaultSnapDir(KeyA)}])] >>
SnapKeyArgs == { <<KeyA>>, <<KeyB>> }

InitSnap ==
  /\ game = TRUE
  /\ uiNotifications = TRUE
  /\ notified = {}
  /\ testBatches = SnapBatches
  /\ appState = "NONE"
  /\ selected = <<>>
  /\ nRegs = Len(SnapBatches)
  /\ regOutcome = "returned"
  /\ lastCall = [k \in Keys |->
                   IF k = KeyB
                   THEN {[fn |-> "fS",
                          context |-> [NoOptions EXCEPT !.snapBaseDir = {getDefaultSnapDir(KeyA)}]]}
                   ELSE IF MapHas(SnapBatches, k) THEN {[fn |-> "fS", context |-> NoOptions]}
                   ELSE {}]
  /\ lastStored = lastCall
  /\ superseded = {}
  /\ regOrder = MapKeys(SnapBatches)
  /\ Constructed
  /\ NoSuiteCall

\* runs are started one after another, with and without the explicit flag,
\* the sticky flag is set from outside, and the writes of updateSnapshots()
\* complete some time after it was called
NextSnap ==
  \/ /\ \A q \in Runs : pc[q] \notin {"clear", "load", "running"}
     /\ \E keys \in SnapKeyArgs, explicit \in NullableBool : runSelectedBatches(keys, explicit)
  \/ \E r \in Runs : ClearDone(r)
  \/ \E r \in Runs : StartRun(r)
  \/ \E r \in Runs : TestBegin(r)
  \/ \E r \in Runs : TestEnd(r)
  \/ \E r \in Runs : RunEnd(r)
  \/ SetEnableUpdates(TRUE)
  \/ PersistDone

SpecSnap == InitSnap /\ [][NextSnap]_vars

(***************************************************************************)
(* Quench.runAllBatches                                                    *)
(***************************************************************************)
\* this.runSelectedBatches([...this._testBatches.keys()])
runAllBatches ==
  CallBegins(MapKeys(testBatches), {}, enableUpdates, { regOrder })

(***************************************************************************)
(* Specifications                                                          *)
(***************************************************************************)
\* The registry from construction on: the host comes up while batches are
\* registered with every kind of key and options.
Next ==
  \/ HostCreateGame
  \/ HostCreateNotifications
  \/ \E key \in Keys, fn \in Fns, context \in RegOptions : registerBatch(key, fn, context)

Spec == Init /\ [][Next]_vars

\* the host is up, nothing is registered yet
InitReady ==
  /\ game = TRUE
  /\ uiNotifications = TRUE
  /\ notified = {}
  /\ testBatches = <<>>
  /\ appState = "NONE"
  /\ selected = <<>>
  /\ nRegs = 0
  /\ regOutcome = "none"
  /\ lastCall = [k \in Keys |-> {}]
  /\ lastStored = [k \in Keys |-> {}]
  /\ superseded = {}
  /\ regOrder = <<>>
  /\ Constructed
  /\ NoSuiteCall

\* Registration on a host that is up: batches of every kind of key are
\* registered and re-registered with and without options.
NextReady ==
  \E key \in Keys, fn \in Fns, context \in RegOptions : registerBatch(key, fn, context)

SpecReady == InitReady /\ [][NextReady]_vars

\* The list of batches: on a host that is up, the window is opened, the user
\* checks and unchecks batches, and batches are registered and re-registered.
NextSurface ==
  \/ \E key \in Keys, fn \in Fns, context \in RegOptions : registerBatch(key, fn, context)
  \/ OpenWindow
  \/ \E i \in 1..MaxRegs : ToggleBatch(i)
  \/ SelectAll
  \/ SelectNone

SpecSurface == InitReady /\ [][NextSurface]_vars

\* getSuiteState applied to a suite of any tree of suites and tests
CallGetSuiteState(i) ==
  /\ i \in 0..Len(suiteArg)
  /\ i # 0 => suiteArg[i].kind = "suite"
  /\ suiteResult' = { [suite |-> i, state |-> getSuiteState(suiteArg, i)] }
  /\ UNCHANGED <<offerVars, suiteArg, hostVars, registryVars, engineVars, runVars, execVars, surfaceVars,
                 flagVars, storeVars, currentRunner>>

InitSuiteState ==
  /\ game = TRUE
  /\ uiNotifications = TRUE
  /\ notified = {}
  /\ testBatches = <<>>
  /\ appState = "NONE"
  /\ selected = <<>>
  /\ nRegs = 0
  /\ regOutcome = "none"
  /\ lastCall = [k \in Keys |-> {}]
  /\ lastStored = [k \in Keys |-> {}]
  /\ superseded = {}
  /\ regOrder = <<>>
  /\ Constructed
  /\ suiteArg \in SuiteTrees(MaxItems)
  /\ suiteResult = {}

NextSuiteState == \E i \in 0..MaxItems : CallGetSuiteState(i)

SpecSuiteState == InitSuiteState /\ [][NextSuiteState]_vars

\* Batches and runs: on a host that is up, batches are registered and
\* re-registered while runs over any selection of keys are prepared and executed.
NextBatches ==
  \/ \E key \in RunKeys, fn \in Fns : registerBatch(key, fn, NoOptions)
  \/ /\ nRuns < MaxBatchRuns
     /\ \E keys \in BatchKeyArgs : runSelectedBatches(keys, {})
  \/ \E r \in Runs : ClearDone(r)
  \/ \E r \in Runs : StartRun(r)
  \/ \E r \in Runs : RunEnd(r)

SpecBatches == InitReady /\ [][NextBatches]_vars

\* Runs and the update flag: on a host that is up and with one batch
\* registered, runs with every kind of updateSnapshots argument overlap freely
\* while the sticky flag is assigned.
TheBatch == <<"a", ".", "x">>

\* the registry after registerBatch(key, fn) for each <<key, fn>> of a list
\* of distinct keys, and the arguments of those calls
Registered(regs) ==
  [i \in 1..Len(regs) |-> [key |-> regs[i][1], value |-> BatchData(regs[i][1], regs[i][2], NoOptions)]]
RegisteredCalls(regs) ==
  [k \in Keys |-> { [fn |-> regs[i][2], context |-> NoOptions] :
                      i \in { j \in 1..Len(regs) : regs[j][1] = k } }]

\* the host is up and registerBatch(TheBatch, "f1") has returned
InitRuns ==
  /\ game = TRUE
  /\ uiNotifications = TRUE
  /\ notified = {}
  /\ testBatches = Registered(<< <<TheBatch, "f1">> >>)
  /\ appState = "NONE"
  /\ selected = <<>>
  /\ nRegs = 1
  /\ regOutcome = "returned"
  /\ lastCall = RegisteredCalls(<< <<TheBatch, "f1">> >>)
  /\ lastStored = lastCall
  /\ superseded = {}
  /\ regOrder = <<TheBatch>>
  /\ Constructed
  /\ NoSuiteCall

NextRuns ==
  \/ \E explicit \in NullableBool : runSelectedBatches(<<TheBatch>>, explicit)
  \/ \E r \in Runs : ClearDone(r)
  \/ \E r \in Runs : StartRun(r)
  \/ \E r \in Runs : RunEnd(r)
  \/ \E v \in BOOLEAN : SetEnableUpdates(v)

SpecRuns == InitRuns /\ [][NextRuns]_vars

\* Execution: on a host that is up, with the results window rendered and three
\* batches registered, runs are prepared, executed test by test and aborted.
ExecBatches == << <<KeyA, "f3">>, <<KeyB, "fT">>, <<KeyL, "fL">> >>

InitExec ==
  /\ game = TRUE
  /\ uiNotifications = TRUE
  /\ notified = {}
  /\ testBatches = Registered(ExecBatches)
  /\ appState = "RENDERED"
  /\ selected = Rerender(<<>>, Registered(ExecBatches))
  /\ nRegs = Len(ExecBatches)
  /\ regOutcome = "returned"
  /\ lastCall = RegisteredCalls(ExecBatches)
  /\ lastStored = lastCall
  /\ superseded = {}
  /\ regOrder = <<KeyA, KeyB, KeyL>>
  /\ Constructed
  /\ NoSuiteCall

NextOverlap ==
  \/ \E keys \in ExecKeyArgs : runSelectedBatches(keys, {})
  \/ \E r \in Runs : ClearDone(r)
  \/ \E r \in Runs : StartRun(r)
  \/ \E r \in Runs : LateDeclare(r)
  \/ \E r \in Runs : TestBegin(r)
  \/ \E r \in Runs : TestEnd(r)
  \/ \E r \in Runs : RunEnd(r)
  \/ abort

SpecOverlap == InitExec /\ [][NextOverlap]_vars

\* the same with the calls of runSelectedBatches made one after another: at
\* most MaxBatchRuns of them, each when no earlier call is still in progress
NextExec ==
  \/ /\ nRuns < MaxBatchRuns
     /\ \A q \in Runs : pc[q] \notin {"clear", "load", "running"}
     /\ \E keys \in ExecKeyArgs : runSelectedBatches(keys, {})
  \/ \E r \in Runs : ClearDone(r)
  \/ \E r \in Runs : ClearRenderError(r)
  \/ \E r \in Runs : StartRun(r)
  \/ \E r \in Runs : LoadRejected(r)
  \/ \E r \in Runs : LateDeclare(r)
  \/ \E r \in Runs : TestBegin(r)
  \/ \E r \in Runs : TestEnd(r)
  \/ \E r \in Runs : RunEnd(r)
  \/ abort

SpecExec == InitExec /\ [][NextExec]_vars

\* runAllBatches: on a host that is up and with two batches registered,
\* batches are registered and re-registered and runAllBatches is called.
AllBatches == << <<KeyA, "f1">>, <<KeyB, "f1">> >>

InitAll ==
  /\ game = TRUE
  /\ uiNotifications = TRUE
  /\ notified = {}
  /\ testBatches = Registered(AllBatches)
  /\ appState = "NONE"
  /\ selected = <<>>
  /\ nRegs = 0
  /\ regOutcome = "returned"
  /\ lastCall = RegisteredCalls(AllBatches)
  /\ lastStored = lastCall
  /\ superseded = {}
  /\ regOrder = <<KeyA, KeyB>>
  /\ Constructed
  /\ NoSuiteCall

NextAll ==
  \/ \E key \in {KeyA, KeyB, KeyL}, fn \in Fns : registerBatch(key, fn, NoOptions)
  \/ /\ nRuns < MaxBatchRuns
     /\ runAllBatches
  \/ \E r \in Runs : ClearDone(r)
  \/ \E r \in Runs : StartRun(r)
  \/ \E r \in Runs : RunEnd(r)

SpecAll == InitAll /\ [][NextAll]_vars

(***************************************************************************)
(* The buttons of the results window                                       *)
(***************************************************************************)
\* the click handler of #quench-run: the checked batches of the list are run;
\* a disabled button gives no click
CheckedKeys(sel) ==
  LET checked == SelectSeq(sel, LAMBDA b : b.checked)
  IN [i \in 1..Len(checked) |-> checked[i].key]
RunButton ==
  /\ HasElement
  /\ ~controls.runDisabled
  /\ runSelectedBatches(CheckedKeys(selected), {})

\* The window is open on the two snapshot batches, one of them checked; runs
\* are started from its run button only, and a package registers its batch
\* once more at any moment.
InitOffer ==
  /\ game = TRUE
  /\ uiNotifications = TRUE
  /\ notified = {}
  /\ testBatches = SnapBatches
  /\ appState = "RENDERED"
  /\ \E c \in 1..Len(SnapBatches) :
       selected = [i \in 1..Len(SnapBatches) |->
                     [Rerender(<<>>, SnapBatches)[i] EXCEPT !.checked = (i = c)]]
  /\ nRegs = MaxRegs - 1
  /\ regOutcome = "returned"
  /\ lastCall = [k \in Keys |->
                   IF k = KeyB
                   THEN {[fn |-> "fS",
                          context |-> [NoOptions EXCEPT !.snapBaseDir = {getDefaultSnapDir(KeyA)}]]}
                   ELSE IF MapHas(SnapBatches, k) THEN {[fn |-> "fS", context |-> NoOptions]}
                   ELSE {}]
  /\ lastStored = lastCall
  /\ superseded = {}
  /\ regOrder = MapKeys(SnapBatches)
  /\ Constructed
  /\ NoSuiteCall

NextOffer ==
  \/ RunButton
  \/ registerBatch(KeyA, "fS", NoOptions)
  \/ \E r \in Runs : ClearDone(r)
  \/ \E r \in Runs : StartRun(r)
  \/ \E r \in Runs : TestBegin(r)
  \/ \E r \in Runs : TestEnd(r)
  \/ \E r \in Runs : RunEnd(r)

SpecOffer == InitOffer /\ [][NextOffer]_vars

(***************************************************************************)
(* Properties                                                              *)
(***************************************************************************)
Started(r) == pc[r] \in {"running", "ended"}
RunEndStep == \E r \in Runs : pc[r] = "running" /\ pc'[r] = "ended"
CallsOf(r, k) == Cardinality({ i \in 1..Len(called[r]) : called[r][i].key = k })
Occurrences(keys, k) == Cardinality({ i \in 1..Len(keys) : keys[i] = k })
KnownKeys(r) == { p[1] : p \in knownAtStart[r] }
RECURSIVE CallsUpTo(_)
CallsUpTo(n) == IF n = 0 THEN 0 ELSE Len(called[n]) + CallsUpTo(n - 1)

\* the definition the registry should hold for registerBatch(key, call.fn, call.context)
ExpectedDefinition(key, call) ==
  [ displayName |-> IF call.context.displayName = {} THEN key
                    ELSE TheValue(call.context.displayName),
    fn |-> call.fn,
    snapBaseDir |-> IF call.context.snapBaseDir = {} THEN getDefaultSnapDir(key)
                    ELSE TheValue(call.context.snapBaseDir),
    preSelected |-> IF call.context.preSelected = {} THEN TRUE
                    ELSE TheValue(call.context.preSelected) ]

\* C1: after any sequence of registerBatch calls the registry holds one
\* definition per key, getBatch(k) is the definition given by the most recent
\* registerBatch(k, ...) with displayName, preSelected and the snapshot
\* directory defaulted, and getBatch of a key never registered is `not found`.
C1_LatestRegistrationWins ==
  /\ \A i, j \in 1..Len(testBatches) : testBatches[i].key = testBatches[j].key => i = j
  /\ \A k \in Keys :
       getBatch(k) = IF lastCall[k] = {} THEN {}
                     ELSE { ExpectedDefinition(k, TheValue(lastCall[k])) }

\* C4: registerBatch never throws: every call returns normally and the batch
\* is stored, whatever the key and whatever the state of the host.
C4_RegisterNeverThrows ==
  /\ regOutcome # "threw"
  /\ \A k \in Keys : lastCall[k] # {} => MapHas(testBatches, k)

\* C2 as stated: registerBatch never invokes a callback, and a run invokes the
\* callback of a registered key exactly once if its batchKeys include the key
\* and never otherwise.
C2_ExactlyOncePerRun ==
  /\ invoked = CallsUpTo(MaxRuns)
  /\ \A r \in Runs : ~Started(r) => called[r] = <<>>
  /\ \A r \in Runs : Started(r) =>
       \A k \in Keys : CallsOf(r, k) = IF k \in KnownKeys(r) THEN 1 ELSE 0

\* C2 as amended: registerBatch never invokes a callback, and a run invokes the
\* callback of a registered key once for each occurrence of the key in its
\* batchKeys (so exactly once when the key occurs once) and never otherwise.
C2_OncePerOccurrence ==
  /\ invoked = CallsUpTo(MaxRuns)
  /\ \A r \in Runs : ~Started(r) => called[r] = <<>>
  /\ \A r \in Runs : Started(r) =>
       \A k \in Keys : CallsOf(r, k) = IF k \in KnownKeys(r)
                                       THEN Occurrences(batchKeys[r], k) ELSE 0

\* a run whose batchKeys name a registered key twice has invoked its callback twice
C2_Witness ==
  \E r \in Runs, k \in Keys :
    /\ Started(r) /\ k \in KnownKeys(r)
    /\ Occurrences(batchKeys[r], k) = 2 /\ CallsOf(r, k) = 2

\* C3: every callback a run invokes is the one given by the most recent
\* registerBatch of its key at that moment; a superseded callback is never
\* invoked by a later run.
C3_LatestCallbackOnly ==
  \A r \in Runs : \A i \in 1..Len(called[r]) :
    <<called[r][i].key, called[r][i].fn>> \in knownAtStart[r]

\* a key was registered with f1, then with f2, and a run has invoked f2 for it
C3_Witness ==
  \E r \in Runs : \E i \in 1..Len(called[r]) :
    /\ called[r][i].fn = "f2"
    /\ <<called[r][i].key, "f1">> \in superseded

\* C5 as stated: the tracked handle is non-null exactly while some run has
\* started and not yet emitted run-end.
C5_HandleIffRunInProgress ==
  (currentRunner # {}) <=> (\E r \in Runs : pc[r] = "running")

\* C5 as amended: a non-null tracked handle designates a run that has started
\* and not yet emitted run-end, so the handle is null whenever no run is in
\* progress (the handle can be null while an overlapping run is in progress).
C5_HandleDesignatesRunInProgress ==
  \A r \in currentRunner : pc[r] = "running"

\* the handle designates the newer of two overlapping runs
C5_Witness ==
  \E r, q \in Runs :
    r # q /\ currentRunner = {r} /\ pc[r] = "running" /\ pc[q] = "running"

\* C6: a run is started whatever other runs are executing: starting is never
\* refused or deferred, the handle becomes the new run's, and every run
\* executing stays executing (it is not stopped) and can reach its run-end.
C6_OverlappingRunsStart ==
  /\ [](\A r \in Runs : (pc[r] = "load" => ENABLED StartRun(r))
                      /\ (pc[r] = "running" => ENABLED RunEnd(r)))
  /\ [][\A r \in Runs : (pc[r] = "load" /\ pc'[r] = "running") =>
          /\ currentRunner' = {r}
          /\ \A q \in Runs \ {r} : pc[q] = "running" => pc'[q] = "running"]_vars

\* a run started while another was executing, and that other run has since
\* reached its own run-end
C6_Witness ==
  \E r, q \in Runs : q \in runningAtStart[r] /\ pc[q] = "ended" /\ pc[r] = "running"

\* the orchestrator's lifecycle state, over all calls
OrchState ==
  IF \E r \in Runs : pc[r] = "running" THEN "Running"
  ELSE IF \E r \in Runs : pc[r] \in {"clear", "load"} THEN "Preparing"
  ELSE "Idle"

\* the run-end actions: the handle is cleared, snapshots are persisted, the
\* sticky flag is reset
RunEndEffect ==
  \/ currentRunner # {} /\ currentRunner' = {}
  \/ persisted' # persisted
  \/ enableUpdates # {} /\ enableUpdates' = {} /\ nSets' = nSets

\* C7 as stated: the orchestrator follows Idle -> Preparing -> Running -> Idle:
\* Preparing is entered only from Idle, Running only from Preparing, and the
\* run-end actions happen only on leaving Running.
C7_SingleLifecycle ==
  [][/\ (\E r \in Runs : pc[r] = "none" /\ pc'[r] = "clear") => OrchState = "Idle"
     /\ (\E r \in Runs : pc[r] # "running" /\ pc'[r] = "running") => OrchState = "Preparing"
     /\ RunEndEffect => RunEndStep]_vars

\* C7 as amended: each run by itself goes Preparing -> Running -> ended, in that
\* order, and the run-end actions happen only when a run leaves Running; a run
\* may enter Preparing or Running while another run is Preparing or Running.
C7_PerRunLifecycle ==
  [][/\ \A r \in Runs : pc'[r] # pc[r] =>
          <<pc[r], pc'[r]>> \in { <<"none", "clear">>, <<"clear", "load">>,
                                  <<"load", "running">>, <<"running", "ended">> }
     /\ RunEndEffect => RunEndStep]_vars

\* a call is being prepared while another run is executing
C7_Witness ==
  \E r, q \in Runs : pc[q] = "running" /\ pc[r] \in {"clear", "load"}

\* the effective update flag of C8, case by case
EffectiveFlag(explicit, sticky) ==
  IF explicit = {TRUE} THEN TRUE
  ELSE IF explicit = {FALSE} THEN FALSE
  ELSE IF sticky = {TRUE} THEN TRUE
  ELSE IF sticky = {FALSE} THEN FALSE
  ELSE FALSE

\* C8: the effective update flag of a run is the explicit argument if it is
\* true or false, else the sticky flag as it is when the flag is resolved if
\* that is true or false, else false.
C8_EffectiveUpdateFlag ==
  \A r \in Runs :
    /\ Started(r) => updateSnapshots[r] = { EffectiveFlag(runArg[r], stickySeen[r]) }
    /\ ~Started(r) => updateSnapshots[r] = runArg[r]

\* an explicit false has overridden a sticky true
C8_Witness ==
  \E r \in Runs :
    Started(r) /\ runArg[r] = {FALSE} /\ stickySeen[r] = {TRUE} /\ updateSnapshots[r] = {FALSE}

\* C9: updateSnapshots is invoked by a run's run-end listener, once, if and
\* only if the run's effective flag as resolved before it started is true, and
\* never before run-end, whatever the sticky flag is assigned meanwhile.
C9_PersistAtRunEndIffFlag ==
  \A r \in Runs :
    persisted[r] = IF pc[r] = "ended" /\ EffectiveFlag(runArg[r], stickySeen[r])
                   THEN 1 ELSE 0

\* a run resolved its flag to false from an unset sticky flag, the sticky flag
\* was set to true while it executed, and its run-end persisted nothing
C9_Witness ==
  \E r \in Runs :
    /\ pc[r] = "ended" /\ runArg[r] = {} /\ stickySeen[r] = {} /\ persisted[r] = 0
    /\ lastSet = {TRUE} /\ enableUpdates = {}
    /\ \A q \in Runs \ {r} : pc[q] # "ended"

\* C10 as stated: a value set on the sticky flag takes effect in exactly one
\* run: it never gives its value to two runs, and a run-end never clears a
\* value that no run has taken.
C10_OneShot ==
  [][/\ Cardinality(stickyUsedBy') <= 1
     /\ (RunEndStep /\ enableUpdates # {}) => stickyUsedBy # {}]_vars

\* C10 as amended: every run-end resets the sticky flag to null, whether or not
\* the ending run took its flag from it; until then the value is given to every
\* run that resolves its flag without an explicit argument (none, one or
\* several), and each such run is still executing.
C10_ResetAtEveryRunEnd ==
  /\ [][RunEndStep => enableUpdates' = {}]_vars
  /\ [](\A r \in stickyUsedBy :
          /\ pc[r] = "running" /\ runArg[r] = {}
          /\ updateSnapshots[r] = stickySeen[r] /\ stickySeen[r] = enableUpdates)

\* a run with an explicit argument has ended and thereby cleared a sticky
\* value that no run had taken
C10_Witness ==
  \E r \in Runs :
    /\ pc[r] = "ended" /\ runArg[r] # {} /\ stickySeen[r] # {}
    /\ enableUpdates = {} /\ lastSet # {}
    /\ \A q \in Runs \ {r} : ~Started(q)

(***************************************************************************)
(* Properties of abort, execution order and registration failures          *)
(***************************************************************************)
AbortStep == nAborts' # nAborts
TestAt(root, q) == suites[root][q[1]].items[q[2]]
\* the suites the call declared through its loop
WrapperOf(r, i) ==
  LET at == TheValue(declaredAt[r]) IN suites[at.root][at.from + i]
RegistrationFailed(r, i) == rootOutcome[r][i] \in {"skipped", "rejected"}

\* C11: abort() tells the runner the handle designates to stop and does nothing
\* when the handle is null: it changes no state of the orchestrator, the
\* registry, the store, the surface or any runner the handle does not
\* designate; it never changes the handle; a call under preparation when
\* abort() is called can still start, and starts with a runner not told to stop.
C11_AbortSignalsTrackedRunner ==
  /\ [][AbortStep =>
          /\ currentRunner' = currentRunner
          /\ \A r \in Runs : aborted'[r] = (aborted[r] \/ r \in currentRunner)
          /\ UNCHANGED <<hostVars, testBatches, engineVars, pc, batchKeys, updateSnapshots,
                         runRoot, lateTodo, pos, executing, stats, surfaceVars,
                         enableUpdates, persisted>>]_vars
  /\ [](\A r \in Runs : /\ pc[r] = "load" => ENABLED StartRun(r)
                        /\ pc[r] \in {"none", "clear", "load"} => ~aborted[r])

\* abort() was called while the handle was null, and the only call there is
\* has since started and begun a test
C11_Witness ==
  \E r \in Runs :
    /\ nAborts = 1 /\ pc[r] = "running" /\ began[r] # <<>> /\ ~aborted[r]
    /\ \A q \in Runs \ {r} : pc[q] = "none"

\* what C12 says of a run in which abort() arrived while test i was in
\* execution (strict: also that fewer tests than declared were executed)
StoppedAfter(r, i, strict) ==
  LET tree == suites[runRoot[r]]
  IN /\ \A m \in 1..Len(began[r]) : ~PosLess(i, began[r][m])
     /\ pc[r] = "running" => ENABLED TestEnd(r) \/ ENABLED RunEnd(r)
     /\ pc[r] = "ended" =>
          /\ getTestState(TestAt(runRoot[r], i)) \in {"success", "failure"}
          /\ runEnds[r] = 1
          /\ stats[r].tests = Len(began[r])
          /\ stats[r].tests = Cardinality({ q \in Runnable(tree) : ~PosLess(i, q) })
          /\ strict \/ NextAfter(tree, i) # {} => stats[r].tests < Cardinality(Runnable(tree))

\* C12 as stated: if abort() is called while test i of a run is in execution,
\* test i reaches a terminal state, no test after i begins and the run emits
\* run-end with statistics covering only the tests executed, fewer than the
\* total declared.
C12_AbortStopsAnyRun ==
  \A r \in Runs : abortCall[r] # {} => StoppedAfter(r, TheValue(abortCall[r]), TRUE)

\* C12 as amended: if abort() is called while test i of the run the handle
\* designates is in execution, test i reaches a terminal state, no test after
\* i begins and the run emits run-end with statistics covering exactly the
\* tests up to i, fewer than the total declared unless i is the last test.
C12_AbortStopsTrackedRun ==
  \A r \in Runs : abortSignal[r] # {} => StoppedAfter(r, TheValue(abortSignal[r]), FALSE)

\* abort() arrived during the first of three tests: the run has ended with
\* one test executed, one success, and the two other tests never begun
C12_Witness ==
  \E r \in Runs :
    /\ abortSignal[r] # {} /\ pc[r] = "ended" /\ batchKeys[r] = <<KeyA>>
    /\ stats[r] = [tests |-> 1, passes |-> 1, failures |-> 0]
    /\ Cardinality(Runnable(suites[runRoot[r]])) = 3
    /\ \E q \in Runnable(suites[runRoot[r]]) : getTestState(TestAt(runRoot[r], q)) = "progress"

\* the batch to which the suite of the root at position q of a run belongs
BatchAt(r, q) == suites[runRoot[r]][q[1]].by

C14_AllKeysInInsertionOrder ==
  \A r \in Runs : viaAll[r] # {} =>
    /\ batchKeys[r] = TheValue(viaAll[r])
    /\ \A i, j \in 1..Len(batchKeys[r]) : batchKeys[r][i] = batchKeys[r][j] => i = j
    /\ declaredAt[r] # {} =>
         /\ Len(called[r]) = Len(batchKeys[r])
         /\ \A i \in 1..Len(called[r]) : called[r][i].key = batchKeys[r][i]
         /\ \A i \in 1..Len(batchKeys[r]) : WrapperOf(r, i).by = batchKeys[r][i]

\* KeyA, registered first, was registered again with another callback after
\* KeyL had been added; a run of all batches has started with KeyA still first
\* and its new callback invoked
C14_Witness ==
  \E r \in Runs :
    /\ viaAll[r] # {} /\ declaredAt[r] # {}
    /\ <<KeyA, "f1">> \in superseded
    /\ batchKeys[r] = <<KeyA, KeyB, KeyL>>
    /\ called[r][1] = [key |-> KeyA, fn |-> "f2"]

\* the displayed entry of the wrapper suite of position i of a call
WrapperId(r, i) == LET at == TheValue(declaredAt[r]) IN <<at.root, at.from + i, 0>>
\* the runner of a call executes the root suite its wrapper suites are declared in
OwnRoot(r) == declaredAt[r] # {} /\ runRoot[r] = TheValue(declaredAt[r]).root
\* the step a call can take next
CanStep(r) ==
  \/ ENABLED ClearDone(r) \/ ENABLED StartRun(r)
  \/ ENABLED TestBegin(r) \/ ENABLED TestEnd(r) \/ ENABLED RunEnd(r)

\* C15: every per-batch registration failure (a selected key that is not
\* registered, or a registration callback that throws while declaring) is
\* reported to the results surface as a failure of that batch's root suite:
\* once the run has ended, the surface shows a failure for the wrapper suite.
C15_RegistrationFailureReported ==
  \A r \in Runs : (pc[r] = "ended" /\ appState = "RENDERED" /\ nRuns = r) =>
    \A i \in 1..Len(batchKeys[r]) :
      RegistrationFailed(r, i) =>
        \E e \in display : e.id = WrapperId(r, i) /\ e.status = "failure"

\* C16: a registration failure at one position of batchKeys (unregistered key
\* or throwing callback) does not prevent the callback of any other position
\* from being invoked nor its tests from executing, and the run still starts
\* and reaches run-end: every position has its wrapper suite with all that its
\* callback declared, every registered key has its callback invoked, a runner
\* that is not aborted executes every test of the wrapper suites of its root,
\* and a started run can always go on until it has ended.
C16_FailureLeavesOtherBatches ==
  \A r \in Runs : declaredAt[r] # {} =>
    /\ Len(suites[TheValue(declaredAt[r]).root]) >= TheValue(declaredAt[r]).from + Len(batchKeys[r])
    /\ Len(called[r]) = Cardinality({ i \in 1..Len(batchKeys[r]) : MapHas(testBatches, batchKeys[r][i]) })
    /\ \A i \in 1..Len(batchKeys[r]) :
         LET w == WrapperOf(r, i)
         IN /\ w.by = batchKeys[r][i]
            /\ Len(w.items) = Len(BodyItems(batchKeys[r][i], testBatches))
            /\ (pc[r] = "ended" /\ ~aborted[r] /\ OwnRoot(r)) =>
                 \A t \in 1..Len(w.items) :
                   (w.items[t].kind = "test" /\ ~w.items[t].pending) =>
                     /\ w.items[t].state \in {"passed", "failed"}
                     /\ \E m \in 1..Len(began[r]) : began[r][m] = <<WrapperId(r, i)[2], t>>
    /\ pc[r] \in {"running", "ended"}
    /\ pc[r] = "running" => ENABLED TestBegin(r) \/ ENABLED TestEnd(r) \/ ENABLED RunEnd(r)

\* a run over an unregistered key and a registered one, and a run over a
\* throwing batch and another, have ended with the other batch's tests executed
C16_Witness ==
  \E r \in Runs :
    /\ pc[r] = "ended" /\ ~aborted[r] /\ OwnRoot(r)
    /\ batchKeys[r] \in { <<KeyU, KeyA>>, <<KeyB, KeyA, KeyB>> }
    /\ \E i \in 1..Len(batchKeys[r]) : RegistrationFailed(r, i)
    /\ stats[r].tests >= 3

\* C17: every runSelectedBatches call leads to exactly one run-end event with
\* the handle back to null, whatever fails along the way: a call that has not
\* ended can take its next step, no run ends twice, and once every call made
\* has come to its end the handle is null.
C17_EveryCallReachesRunEnd ==
  /\ \A r \in Runs :
       /\ pc[r] \notin {"none", "ended"} => CanStep(r)
       /\ runEnds[r] = (IF pc[r] = "ended" THEN 1 ELSE 0)
  /\ (\A r \in Runs : pc[r] \in {"none", "ended"}) => currentRunner = {}

\* C18: runSelectedBatches with an empty batchKeys sequence invokes no
\* registration callback, starts the engine and reaches run-end with a total
\* of zero tests.
C18_EmptyRunHasNoTests ==
  \A r \in Runs : (pc[r] # "none" /\ batchKeys[r] = <<>>) =>
    /\ called[r] = <<>>
    /\ pc[r] \notin {"none", "ended"} => CanStep(r)
    /\ stats[r].tests = 0 /\ began[r] = <<>>
    /\ pc[r] = "ended" => Runnable(suites[runRoot[r]]) = {}

\* C19: every suite or test created during the registration of batch K
\* through a declaration primitive of K's context (describe, it, and their
\* only/skip variants) carries the owning-batch marker K, also when it is
\* declared after an asynchronous suspension.
C19_EveryDeclarationMarked ==
  \A root \in Roots : \A s \in 1..Len(suites[root]) :
    /\ suites[root][s].parentBatch = {suites[root][s].by}
    /\ \A t \in 1..Len(suites[root][s].items) :
         suites[root][s].items[t].parentBatch = {suites[root][s].items[t].by}

HasSeparator(key) == \E i \in 1..Len(key) : key[i] = "."
Namespace(key) == SubSeq(key, 1, (CHOOSE i \in 1..Len(key) : key[i] = "." /\ \A j \in 1..(i - 1) : key[j] # ".") - 1)
NeedsWarning(key) == ~HasSeparator(key) \/ Namespace(key) \notin KnownPackages
InvalidPackageName(key) == <<"error", "ERROR.InvalidPackageName", key>>

\* C21: registerBatch emits the validation warning whenever the key contains
\* no namespace separator or the text before the first separator is not a
\* known package, emits no validation warning otherwise, and stores the batch
\* in every case.
C21_WarnsOnInvalidNamespace ==
  [][\A key \in Keys, fn \in Fns, context \in RegOptions :
       registerBatch(key, fn, context) =>
         /\ NeedsWarning(key) => InvalidPackageName(key) \in notified'
         /\ (~NeedsWarning(key) /\ InvalidPackageName(key) \notin notified)
              => InvalidPackageName(key) \notin notified'
         /\ MapGet(testBatches', key) = {BatchData(key, fn, context)}]_vars

\* C30: the suite tree executed by the run that a runSelectedBatches(K) call
\* starts contains exactly the batch-root suites of the keys in K: the runner
\* executes the root suite the call declared its wrapper suites in, that root
\* held nothing before, and every batch-root suite in it is one of the call's.
C30_RunExecutesOwnSuites ==
  \A r \in Runs : declaredAt[r] # {} =>
    /\ OwnRoot(r)
    /\ TheValue(declaredAt[r]).from = 0
    /\ \A s \in 1..Len(suites[runRoot[r]]) :
         suites[runRoot[r]][s].batchRoot => s <= Len(batchKeys[r])

\* the checkbox of the batch `key` in a list, {} when the list does not show it
CheckedIn(sel, key) ==
  { sel[i].checked : i \in { j \in 1..Len(sel) : sel[j].key = key } }

\* C27: when a batch is registered or re-registered while the list of batches
\* is displayed, every batch the list showed before keeps the checkbox state it
\* had, the re-registered one included, and a batch the list did not show
\* before is listed with its preSelected option.
C27_RerenderKeepsSelection ==
  [][\A key \in Keys, fn \in Fns, context \in RegOptions :
       (registerBatch(key, fn, context) /\ appState = "RENDERED") =>
         /\ MapKeys(selected') = MapKeys(testBatches')
         /\ \A k \in Keys :
              /\ CheckedIn(selected, k) # {} => CheckedIn(selected', k) = CheckedIn(selected, k)
              /\ (CheckedIn(selected, k) = {} /\ MapHas(testBatches', k)) =>
                   CheckedIn(selected', k) = {TheValue(MapGet(testBatches', k)).preSelected}]_vars
\* a displayed batch whose checkbox differs from the preSelected option it was
\* last registered with, next to a batch that was listed by a later registration
C27_Witness ==
  /\ appState = "RENDERED"
  /\ nRegs = 2
  /\ Len(selected) = 2
  /\ selected[1].checked # testBatches[1].value.preSelected
  /\ selected[2].checked = FALSE

\* the test a run is executing, and the directory its comparisons go to
ExecutingTest(r) == suites[runRoot[r]][pos[r][1]].items[pos[r][2]]
ExecutingDir(r) == SnapDirOf(TheValue(ExecutingTest(r).parentBatch), testBatches)
\* the directories updateSnapshots() has records to write into
DirtyDirs == { x.dir : x \in { y \in snapRecords : y.dirty } }

\* C22: updateSnapshots() is never in progress while a run is executing a
\* test against a snapshot directory it writes into.
C22_NoPersistenceDuringRun ==
  \A r \in Runs :
    (pc[r] = "running" /\ executing[r] /\ ExecutingTest(r).body = "snap") =>
      ~(persisting > 0 /\ ExecutingDir(r) \in DirtyDirs)

\* run r's test in execution is one that compares, and the step ends it
Compares(r) == executing[r] /\ ~executing'[r] /\ ExecutingTest(r).body = "snap"
RecordOf(records, dir, id) == { x \in records : x.dir = dir /\ x.id = id }

\* C23: a compare in update mode succeeds and leaves its record dirty with the
\* serialization of the value; when the writes of updateSnapshots() complete,
\* every dirty record is in storage with its value and is dirty no more; and
\* a compare with update mode off of the value the record was last given by a
\* compare in update mode succeeds.
C23_SnapshotRoundTrip ==
  [][/\ \A r \in Runs :
          (Compares(r) /\ CompareMode(enableUpdates)) =>
            LET c == TheValue(lastCompare')
            IN /\ c.result = "ok"
               /\ ExecutingTest(r)'.state = "passed"
               /\ RecordOf(snapRecords', c.dir, c.id) =
                    { [dir |-> c.dir, id |-> c.id, value |-> Serialize(c.v), dirty |-> TRUE] }
     /\ persisting' < persisting =>
          /\ \A x \in snapRecords :
               x.dirty => /\ [dir |-> x.dir, id |-> x.id, value |-> x.value] \in snapStorage'
                          /\ [x EXCEPT !.dirty = FALSE] \in snapRecords'
          /\ \A x \in snapRecords' : ~x.dirty
     /\ \A r \in Runs :
          (Compares(r) /\ ~CompareMode(enableUpdates)) =>
            LET c == TheValue(lastCompare')
            IN [dir |-> c.dir, id |-> c.id, v |-> c.v] \in snapAccepted =>
                 c.result = "ok" /\ ExecutingTest(r)'.state = "passed"]_vars
\* the second run has compared, update mode off, the value the first run gave
\* a record that did not exist before, after updateSnapshots() has written it
C23_Witness ==
  /\ lastCompare # NoCompare
  /\ LET c == TheValue(lastCompare)
     IN /\ c.run = 2
        /\ ~c.mode
        /\ c.result = "ok"
        /\ c.id[1] = KeyA \o <<"_root">>
        /\ [dir |-> c.dir, id |-> c.id, v |-> c.v] \in snapAccepted
        /\ [dir |-> c.dir, id |-> c.id, value |-> Serialize(c.v)] \in snapStorage
        /\ RecordOf(snapRecords, c.dir, c.id) =
             { [dir |-> c.dir, id |-> c.id, value |-> Serialize(c.v), dirty |-> FALSE] }

\* C24: a compare with update mode off succeeds exactly when its record exists
\* and holds the serialization of the value; without a record it fails with
\* MissingSnapshot and the path of the file the record would be in; with a
\* record of another value it fails with an assertion error that carries the
\* stored text and the serialization of the value; in each case the records
\* and their dirty flags are as before.
C24_CompareWithoutUpdate ==
  [][\A r \in Runs :
       (Compares(r) /\ ~CompareMode(enableUpdates)) =>
         LET c == TheValue(lastCompare')
             rec == RecordOf(snapRecords, c.dir, c.id)
         IN /\ c.run = r /\ ~c.mode
            /\ c.dir = ExecutingDir(r)
            /\ snapRecords' = snapRecords
            /\ (c.result = "ok") <=> (\E x \in rec : x.value = Serialize(c.v))
            /\ (ExecutingTest(r)'.state = "passed") <=> (c.result = "ok")
            /\ rec = {} =>
                 /\ c.result = "MissingSnapshot"
                 /\ c.path = {SnapFile(ExecutingDir(r), c.id)}
            /\ (rec # {} /\ \A x \in rec : x.value # Serialize(c.v)) =>
                 /\ c.result = "AssertionError"
                 /\ c.expected = { x.value : x \in rec }
                 /\ c.actual = {Serialize(c.v)}]_vars
\* a compare has just failed for a record of another value, after one of an
\* earlier run had failed for want of a record (and a third outcome, success,
\* is what C23_Witness shows)
C24_Witness ==
  /\ lastCompare # NoCompare
  /\ LET c == TheValue(lastCompare)
     IN /\ ~c.mode
        /\ c.run = 2
        /\ c.result = "AssertionError"
        /\ c.expected = {"s2"} /\ c.actual = {"s1"}
  /\ batchKeys[1] = <<KeyA>>
  /\ stats[1].failures = 1
  /\ snapAccepted = {}
  /\ RecordOf(snapRecords, getDefaultSnapDir(KeyA), <<KeyA \o <<"_root">>, "S", "t1">>) = {}

\* C25: when the writes of updateSnapshots() complete, the value of every
\* dirty record is in its backing file, every other record the files held is
\* still there with its value, a file without a dirty record holds exactly
\* what it held, and no record is dirty.
C25_UpdateMergesIntoFiles ==
  [][persisting' < persisting =>
       LET dirty == { x \in snapRecords : x.dirty }
           files == { SnapFile(x.dir, x.id) : x \in dirty }
           Stored(x) == [dir |-> x.dir, id |-> x.id, value |-> x.value]
       IN /\ \A x \in dirty : Stored(x) \in snapStorage'
          /\ \A e \in snapStorage :
               (\A x \in dirty : ~(x.dir = e.dir /\ x.id = e.id)) => e \in snapStorage'
          /\ \A e \in snapStorage' : e \in snapStorage \/ \E x \in dirty : e = Stored(x)
          /\ \A e \in snapStorage \cup snapStorage' :
               SnapFile(e.dir, e.id) \notin files => (e \in snapStorage /\ e \in snapStorage')
          /\ { [dir |-> x.dir, id |-> x.id, value |-> x.value] : x \in snapRecords' } =
             { [dir |-> x.dir, id |-> x.id, value |-> x.value] : x \in snapRecords }
          /\ \A x \in snapRecords' : ~x.dirty]_vars
\* the record of KeyA's test has been written into the file that held the
\* record of a test that exists no more, which is still there, as is the file
\* of KeyB
C25_Witness ==
  /\ persisting = 0
  /\ \E r \in Runs : persisted[r] > 0
  /\ \E e \in snapStorage : e.id = <<KeyA \o <<"_root">>, "S", "t1">>
  /\ InitialStorage \subseteq snapStorage
  /\ \A x \in snapRecords : ~x.dirty

\* run r resumes after `await loadBatchSnaps(batchKeys)`
LoadCompletes(r) == pc[r] = "load" /\ pc'[r] = "running"

\* C26: no directory is read more than once, and a load leaves the records of
\* every directory that was cached as they were, dirty ones included: a
\* directory is read only by the first load that asks for it.
C26_DirectoriesReadOnce ==
  [][/\ \A d \in SnapDirs : snapReads'[d] <= 1
     /\ \A r \in Runs :
          LoadCompletes(r) =>
            /\ \A d \in snapCache :
                 /\ snapReads'[d] = snapReads[d]
                 /\ { x \in snapRecords' : x.dir = d } = { x \in snapRecords : x.dir = d }
            /\ \A i \in 1..Len(batchKeys[r]) :
                 MapHas(testBatches, batchKeys[r][i]) =>
                   /\ SnapDirOf(batchKeys[r][i], testBatches) \in snapCache'
                   /\ snapReads'[SnapDirOf(batchKeys[r][i], testBatches)] = 1
            /\ snapCache \subseteq snapCache']_vars
\* the second run has loaded for a batch that keeps its snapshots in the
\* directory the first run's batch had loaded, while a record of that
\* directory is dirty
C26_Witness ==
  /\ pc[2] = "running"
  /\ batchKeys[1] = <<KeyA>>
  /\ batchKeys[2] = <<KeyB>>
  /\ snapReads[getDefaultSnapDir(KeyA)] = 1
  /\ \E x \in snapRecords : x.dirty /\ x.dir = getDefaultSnapDir(KeyA)

C29_CompareModeIsEffectiveFlag ==
  [][\A r \in Runs :
       Compares(r) =>
         LET c == TheValue(lastCompare')
         IN /\ c.mode = (updateSnapshots[r] = {TRUE})
            /\ updateSnapshots[r] = {TRUE} =>
                 /\ c.result = "ok"
                 /\ \E x \in RecordOf(snapRecords', c.dir, c.id) : x.dirty
            /\ updateSnapshots[r] = {FALSE} =>
                 \A x \in snapRecords' : x.dirty => x \in snapRecords]_vars

\* item k of a tree lies inside suite i with no pending suite between them
RECURSIVE InsideOpen(_, _, _)
InsideOpen(items, k, i) ==
  LET p == items[k].parent
  IN IF p = i THEN TRUE
     ELSE IF p = 0 THEN FALSE
     ELSE ~items[p].pending /\ InsideOpen(items, p, i)
FailedTest(items, t) ==
  items[t].kind = "test" /\ ~items[t].pending /\ items[t].state = "failed"
\* suite j is not pending and a failed test lies inside it, inside no pending suite
ReportedFailure(items, j) ==
  /\ ~items[j].pending
  /\ \E t \in 1..Len(items) : FailedTest(items, t) /\ InsideOpen(items, t, j)

\* C33: getSuiteState reports a pending suite as pending; a suite that is not
\* pending as failure exactly when one of its own tests has failed or one of
\* its child suites is reported as failure, and as success otherwise; tests
\* that are pending or were not executed and pending child suites do not make
\* it fail, and it is never reported as in progress.
C33_SuiteStateFromTestsAndChildren ==
  \A res \in suiteResult :
    LET items == suiteArg
        i == res.suite
        pending == i # 0 /\ items[i].pending
        own == { t \in 1..Len(items) : items[t].kind = "test" /\ items[t].parent = i }
        children == { j \in 1..Len(items) : items[j].kind = "suite" /\ items[j].parent = i }
    IN /\ res.state \in {"pending", "success", "failure"}
       /\ (res.state = "pending") <=> pending
       /\ ~pending =>
            ((res.state = "failure") <=>
               \/ \E t \in own : FailedTest(items, t)
               \/ \E j \in children : ReportedFailure(items, j))
       /\ (\A t \in 1..Len(items) : ~FailedTest(items, t)) => res.state # "failure"
\* the suite that holds all is reported as failure for a failed test two
\* suites down
C33_Witness ==
  /\ Len(suiteArg) = 3
  /\ suiteArg[1].kind = "suite" /\ suiteArg[2].kind = "suite"
  /\ suiteArg[2].parent = 1 /\ suiteArg[3].parent = 2
  /\ FailedTest(suiteArg, 3)
  /\ suiteResult = { [suite |-> 0, state |-> "failure"] }


Running(r) == pc[r] = "running"

\* C32: from run-begin to run-end the window keeps the run, select-all and
\* select-none buttons disabled and the abort button shown, whatever happens
\* meanwhile (a registerBatch that makes the window re-render included), so
\* the run button cannot start a second run while one is in progress
C32_RunTriggerDisabledDuringRun ==
  (HasElement /\ \E r \in Runs : Running(r)) =>
     /\ controls.runDisabled
     /\ controls.selectDisabled
     /\ controls.abortShown


\* C31: at the run-end of a run the window shows the snapshot-update button
\* exactly when a test of that run failed, between its run-begin and its
\* run-end, with a MissingSnapshotError or an error carrying snapshotError;
\* failures of another run never cause the offer
C31_OfferIffSnapshotFailure ==
  [][\A r \in Runs :
       (HasElement /\ Running(r) /\ pc'[r] = "ended") =>
          (controls'.updateShown <=> snapFailed[r])]_vars

====
